---- MODULE Spec2Model ----
(***************************************************************************)
(* Direct-debit submission lifecycle: the form processor creates a         *)
(* submission in the DynamoDB table, the webhook handler records the        *)
(* verification outcome, the daily exporter scans, uploads and marks.       *)
(* The table and the bucket are the only state shared by the handlers.      *)
(***************************************************************************)
EXTENDS Integers, Sequences, FiniteSets, TLC

\* ------------------------------------------------------------------ bounds
MaxSubs == 2        \* submissions the form processor creates in a behaviour
MaxWebhooks == 2    \* webhook invocations in a behaviour
MaxExports == 2     \* daily-export invocations in a behaviour
MaxTime == 1        \* last tick of the wall clock
MaxCustomerLen == 26    \* longest customerNumber handed to recordToFixedWidth
MaxEmailLen == 232      \* longest email handed to recordToFixedWidth
MaxMessageLen == 17     \* longest query string handed to encryptQueryString
MaxEncryptCalls == 2    \* calls of encryptQueryString on one input
MaxLoads == 2       \* CSV-loader invocations in a behaviour
MaxPendingValidations == 2   \* simulated API responses awaited at once on the page

\* ---------------------------------------------------------- value spaces
\* crypto.randomUUID() values, listed in the table's scan (key) order; the
\* form processor draws them in this order.
UUIDs == <<"u1", "u2", "u3", "u4", "u5", "u6">>
IDs == {UUIDs[i] : i \in 1..MaxSubs}
Idx(id) == CHOOSE i \in 1..Len(UUIDs) : UUIDs[i] = id

\* One Scan call evaluates one page of the table (1 MB of items in DynamoDB)
\* before the FilterExpression is applied; the exporter issues one call and
\* never follows LastEvaluatedKey.  A page holds at least this many items and,
\* depending on their sizes, possibly more.
ScanPageLimit == 1

\* Ticks of the clock per calendar day (toISOString().slice(0, 10)).
TicksPerDay == 2

Times == 0..MaxTime
WebhookPs == 1..MaxWebhooks
ExportPs == 1..MaxExports

\* JSON literals a webhook field can carry.
LitTrueStr == "\"True\""
LitTrueBool == "true"
LitLowerStr == "\"true\""
LitFalseStr == "\"False\""
VerificationLits == {LitTrueStr, LitTrueBool, LitLowerStr, LitFalseStr}
\* The literals the third party sends in the lifecycle behaviours.
WebhookLits == {LitTrueStr, LitFalseStr}

VARIABLES
    store,      \* the DirectDebitSubmissions table: submissionId -> item
    s3,         \* the export bucket: object key -> body
    now,        \* the wall clock
    wh,         \* webhook invocations
    ex,         \* daily-export invocations
    out,        \* the response of the invocation that returned last
    call,       \* a function of the handlers applied on its own: input, result
    csvFiles,   \* the CSV bucket: file name -> lines of the file
    customers,  \* the customers table of the relational store: its rows
    ld,         \* CSV-loader invocations
    ui          \* the form page: fields, button, timers

vars == <<store, s3, now, wh, ex, out, call, csvFiles, customers, ld, ui>>

\* ------------------------------------------------------------- helpers
\* new Date().toISOString(), and the instant an ISO string denotes
toISOString(t) == [date |-> t \div TicksPerDay, time |-> t % TicksPerDay]
Instant(iso) == iso.date * TicksPerDay + iso.time
\* .slice(0, 10).replace(/-/g, '')
YYYYMMDD(iso) == iso.date

\* An item is a function from attribute names to values; an attribute that
\* was never set is not in its domain.
Has(item, a) == a \in DOMAIN item

\* UpdateItem with a SET expression and no ConditionExpression: sets the
\* attributes, keeps the others, and creates the item when the key is new.
UpdateItem(table, id, sets) ==
    IF id \in DOMAIN table
    THEN [k \in DOMAIN table |-> IF k = id THEN sets @@ table[k] ELSE table[k]]
    ELSE (id :> (sets @@ [submissionId |-> id])) @@ table

\* PutItem: writes the whole item under its key.
PutItem(table, item) ==
    [k \in DOMAIN table \cup {item.submissionId} |->
        IF k = item.submissionId THEN item ELSE table[k]]

\* GetItem: result.Item, undefined when the key is absent.
NoItem == [none |-> TRUE]
GetItem(table, id) == IF id \in DOMAIN table THEN table[id] ELSE NoItem

\* ------------------------------------------------------- webhook handler
\* A parsed webhook object: a function from the fields present to literals.
WebhookObjects ==
    UNION {[F -> IDs \cup {""} \cup WebhookLits] : F \in SUBSET {"CustomData", "VerificationStatus"}}
WellFormedObject(o) ==
    /\ Has(o, "CustomData") => o.CustomData \in IDs \cup {""}
    /\ Has(o, "VerificationStatus") => o.VerificationStatus \in WebhookLits

\* event.body: JSON text of an object, the JSON text null, or a form-encoded
\* string (whose values are all strings once parsed).
WebhookBodies ==
    {[kind |-> k, data |-> o] : k \in {"json"}, o \in {x \in WebhookObjects : WellFormedObject(x)}}
    \cup {[kind |-> "null", data |-> [f \in {} |-> ""]]}
    \cup {[kind |-> "form", data |-> o] :
            o \in {x \in WebhookObjects : WellFormedObject(x) /\
                     (Has(x, "VerificationStatus") => x.VerificationStatus # LitTrueBool)}}
NoBody == [kind |-> "none", data |-> [f \in {} |-> ""]]
WebhookEvents ==
    {[httpMethod |-> "POST", body |-> b] : b \in WebhookBodies \cup {NoBody}}
    \cup {[httpMethod |-> m, body |-> NoBody] : m \in {"GET", "OPTIONS"}}

\* JSON.parse(event.body), with the URLSearchParams fallback of the catch.
ParseBody(body) == body.data
\* JSON.stringify(webhookData)
JSONstringify(obj) == [json |-> obj]

\* webhookData.VerificationStatus === 'True' || === true
DetermineStatus(webhookData) ==
    IF Has(webhookData, "VerificationStatus")
       /\ webhookData.VerificationStatus \in {LitTrueStr, LitTrueBool}
    THEN "approved" ELSE "failed"

\* (mutant) the update replaces the item instead of setting attributes.
updateSubmissionStatusPut(table, submissionId, status, webhookData, t) ==
    PutItem(table,
        [submissionId |-> submissionId, status |-> status,
         webhookData |-> JSONstringify(webhookData),
         updatedAt |-> toISOString(t), exported |-> FALSE])

\* updateSubmissionStatus: one unconditional UpdateItem.
updateSubmissionStatus(table, submissionId, status, webhookData, t) ==
    UpdateItem(table, submissionId,
        [status |-> status,
         webhookData |-> JSONstringify(webhookData),
         updatedAt |-> toISOString(t)])

\* (mutant) a lookup that never comes back empty.
getSubmissionOrKey(table, submissionId) ==
    IF submissionId \in DOMAIN table THEN table[submissionId]
    ELSE [submissionId |-> submissionId, status |-> "pending"]

\* getSubmission
getSubmission(table, submissionId) == GetItem(table, submissionId)

\* A handler's return value: who returned, the status code, the body.
NoResp == [handler |-> "none"]
Resp(h, code, body) == [handler |-> h, statusCode |-> code, body |-> body]
Error(msg) == [error |-> msg]
WhIdle == [pc |-> "idle"]
WhDone == [pc |-> "done"]

WhReturn(p, code, body) ==
    /\ wh' = [wh EXCEPT ![p] = WhDone]
    /\ out' = Resp("webhook", code, body)

\* The handler up to and including `await getSubmission`.
WebhookReceive(p, event, getOk) ==
    /\ wh[p].pc = "idle"
    /\ p > 1 => wh[p - 1].pc # "idle"
    /\ UNCHANGED <<store, s3, now, ex, call, csvFiles, customers, ld, ui>>
    /\ IF event.httpMethod = "OPTIONS"
       THEN WhReturn(p, 200, [empty |-> TRUE])
       ELSE IF ~(event.httpMethod = "POST" /\ event.body.kind # "none")
       THEN WhReturn(p, 400, Error("Invalid request method or missing body"))
       ELSE IF event.body.kind = "null"
       THEN WhReturn(p, 500, Error("Internal server error"))
       ELSE LET webhookData == ParseBody(event.body)
                submissionId == IF Has(webhookData, "CustomData")
                                THEN webhookData.CustomData ELSE ""
            IN IF submissionId = ""
               THEN WhReturn(p, 400, Error("Missing CustomData field"))
               ELSE IF ~getOk
               THEN WhReturn(p, 500, Error("Internal server error"))
               ELSE IF getSubmission(store, submissionId) = NoItem
               THEN WhReturn(p, 404, Error("Submission not found"))
               ELSE /\ wh' = [wh EXCEPT ![p] =
                            [pc |-> "update",
                             submissionId |-> submissionId,
                             webhookData |-> webhookData,
                             existingStatus |-> getSubmission(store, submissionId).status,
                             status |-> DetermineStatus(webhookData)]]
                    /\ out' = out

\* `await updateSubmissionStatus` and the 200 response.
WebhookUpdate(p) ==
    /\ wh[p].pc = "update"
    /\ store' = updateSubmissionStatus(store, wh[p].submissionId, wh[p].status,
                                       wh[p].webhookData, now)
    /\ WhReturn(p, 200, [success |-> TRUE, submissionId |-> wh[p].submissionId,
                          status |-> wh[p].status])
    /\ UNCHANGED <<s3, now, ex, call, csvFiles, customers, ld, ui>>

\* The UpdateItem call throws: the catch answers 500.
WebhookUpdateFails(p) ==
    /\ wh[p].pc = "update"
    /\ WhReturn(p, 500, Error("Internal server error"))
    /\ UNCHANGED <<store, s3, now, ex, call, csvFiles, customers, ld, ui>>

\* -------------------------------------------------------- daily exporter
\* The pages one Scan call can evaluate: a prefix of the table in key order,
\* the whole table when it fits.
Prefix(table, n) ==
    {id \in DOMAIN table : Cardinality({k \in DOMAIN table : Idx(k) < Idx(id)}) < n}
ScanPages(table) ==
    {Prefix(table, n) : n \in ScanPageLimit..(Cardinality(DOMAIN table) + ScanPageLimit)}

\* FilterExpression '#status = :status AND #exported = :exported'
MatchesFilter(item) ==
    /\ Has(item, "status") /\ item.status = "approved"
    /\ Has(item, "exported") /\ item.exported = FALSE

\* getApprovedRecords: result.Items of a single ScanCommand.
getApprovedRecords(table, page) ==
    [id \in {k \in page : MatchesFilter(table[k])} |-> table[id]]

\* The line of a record in the export file, by the fields recordToFixedWidth
\* lays out (the character layout is recordToFixedWidth below).
ExportLine(record) ==
    [customerNumber |-> IF Has(record, "customerNumber") THEN record.customerNumber ELSE <<>>,
     email |-> IF Has(record, "email") THEN record.email ELSE <<>>,
     formattedDate |-> YYYYMMDD(record.submissionDate)]
\* new Date(submissionDate).toISOString() throws on a missing date.
CanSerialize(record) == Has(record, "submissionDate")

\* records.map(recordToFixedWidth).join('\n'), in scan order.
RECURSIVE FileContent(_, _)
FileContent(records, ids) ==
    IF ids = {} THEN <<>>
    ELSE LET first == CHOOSE i \in ids : \A j \in ids : Idx(i) <= Idx(j)
         IN <<ExportLine(records[first])>> \o FileContent(records, ids \ {first})

\* fileContent.length: the lines (each of RecordLength characters, see
\* recordToFixedWidth below) and the '\n' between them.
RecordLength == 606
ContentLength(fileContent) ==
    IF fileContent = <<>> THEN 0
    ELSE RecordLength * Len(fileContent) + (Len(fileContent) - 1)

\* (mutant) the key carries the instant, not the date.
ExportFileNameWithTime(t) == <<"DIRECT_DEBIT_EXPORT_", t, ".txt">>

\* `DIRECT_DEBIT_EXPORT_${timestamp}.txt`
ExportFileName(t) == <<"DIRECT_DEBIT_EXPORT_", YYYYMMDD(toISOString(t)), ".txt">>

ExIdle == [pc |-> "idle", ids |-> {}, pending |-> {}]

\* (mutant) the update sets the flag without its timestamp.
MarkExportedNoTimestamp(table, submissionId, t) ==
    UpdateItem(table, submissionId, [exported |-> TRUE])

\* (mutant) the update also rewrites the status attribute.
MarkExportedAndStatus(table, submissionId, t) ==
    UpdateItem(table, submissionId,
        [exported |-> TRUE, exportedAt |-> toISOString(t), status |-> "exported"])

\* markRecordsAsExported: the UpdateItem of one submissionId.
MarkExported(table, submissionId, t) ==
    UpdateItem(table, submissionId, [exported |-> TRUE, exportedAt |-> toISOString(t)])

ExReturn(r, code, body) ==
    /\ ex' = [ex EXCEPT ![r] = [pc |-> "done", ids |-> ex[r].ids, pending |-> {},
                                 code |-> code]]
    /\ out' = Resp("export", code, body)
ExFailure(msg) == [success |-> FALSE, error |-> msg]

\* (mutant) the handler without its `records.length === 0` return.
ExportScanNoEmptyCheck(r, scanOk, page) ==
    /\ ex[r].pc = "idle"
    /\ r > 1 => ex[r - 1].pc # "idle"
    /\ UNCHANGED <<store, s3, now, wh, call, csvFiles, customers, ld, ui>>
    /\ IF ~scanOk
       THEN ExReturn(r, 500, ExFailure("scan"))
       ELSE LET records == getApprovedRecords(store, page)
            IN /\ ex' = [ex EXCEPT ![r] =
                        [pc |-> "upload", startTime |-> now,
                         ids |-> DOMAIN records, pending |-> {},
                         fileContent |-> FileContent(records, DOMAIN records),
                         fileName |-> ExportFileName(now)]]
               /\ out' = out

\* The handler up to the upload: scan, empty check, serialisation, file name.
ExportScan(r, scanOk, page) ==
    /\ ex[r].pc = "idle"
    /\ r > 1 => ex[r - 1].pc # "idle"
    /\ UNCHANGED <<store, s3, now, wh, call, csvFiles, customers, ld, ui>>
    /\ IF ~scanOk
       THEN ExReturn(r, 500, ExFailure("scan"))
       ELSE LET records == getApprovedRecords(store, page)
            IN IF DOMAIN records = {}
               THEN ExReturn(r, 200, [success |-> TRUE, recordsExported |-> 0])
               ELSE IF \E id \in DOMAIN records : ~CanSerialize(records[id])
               THEN ExReturn(r, 500, ExFailure("Invalid time value"))
               ELSE /\ ex' = [ex EXCEPT ![r] =
                            [pc |-> "upload", startTime |-> now,
                             ids |-> DOMAIN records, pending |-> {},
                             fileContent |-> FileContent(records, DOMAIN records),
                             fileName |-> ExportFileName(now)]]
                    /\ out' = out

\* uploadExportFile succeeds; markRecordsAsExported then issues every update.
ExportUpload(r) ==
    /\ ex[r].pc = "upload"
    /\ s3' = (ex[r].fileName :> ex[r].fileContent) @@ s3
    /\ ex' = [ex EXCEPT ![r] =
                [pc |-> "mark", startTime |-> ex[r].startTime,
                 ids |-> ex[r].ids, pending |-> ex[r].ids,
                 fileName |-> ex[r].fileName,
                 fileSize |-> ContentLength(ex[r].fileContent),
                 exportedAt |-> now]]
    /\ UNCHANGED <<store, now, wh, out, call, csvFiles, customers, ld, ui>>

\* (mutant) the upload error is swallowed and the records are marked anyway.
ExportUploadFailsThenMarks(r) ==
    /\ ex[r].pc = "upload"
    /\ ex' = [ex EXCEPT ![r] =
                [pc |-> "mark", startTime |-> ex[r].startTime,
                 ids |-> ex[r].ids, pending |-> ex[r].ids,
                 fileName |-> ex[r].fileName,
                 fileSize |-> ContentLength(ex[r].fileContent),
                 exportedAt |-> now]]
    /\ UNCHANGED <<store, s3, now, wh, out, call, csvFiles, customers, ld, ui>>

\* uploadExportFile throws: the catch answers 500, nothing is marked.
ExportUploadFails(r) ==
    /\ ex[r].pc = "upload"
    /\ ExReturn(r, 500, ExFailure("upload"))
    /\ UNCHANGED <<store, s3, now, wh, call, csvFiles, customers, ld, ui>>

\* One of the concurrent UpdateItem calls lands.
ExportMark(r, id) ==
    /\ id \in ex[r].pending
    /\ store' = MarkExported(store, id, ex[r].exportedAt)
    /\ ex' = [ex EXCEPT ![r].pending = @ \ {id}]
    /\ UNCHANGED <<s3, now, wh, out, call, csvFiles, customers, ld, ui>>

\* One of the UpdateItem calls rejects: Promise.all rejects and the catch
\* answers 500; the calls already issued are still in flight.
ExportMarkFails(r, id) ==
    /\ ex[r].pc = "mark"
    /\ id \in ex[r].pending
    /\ ex' = [ex EXCEPT ![r] = [pc |-> "done", ids |-> ex[r].ids,
                                 pending |-> ex[r].pending \ {id}, code |-> 500,
                                 fileName |-> ex[r].fileName,
                                 exportedAt |-> ex[r].exportedAt]]
    /\ out' = Resp("export", 500, ExFailure("mark"))
    /\ UNCHANGED <<store, s3, now, wh, call, csvFiles, customers, ld, ui>>

\* Promise.all resolves: the success response.
ExportFinish(r) ==
    /\ ex[r].pc = "mark"
    /\ ex[r].pending = {}
    /\ ExReturn(r, 200,
            [success |-> TRUE, recordsExported |-> Cardinality(ex[r].ids),
             fileName |-> ex[r].fileName, fileSize |-> ex[r].fileSize])
    /\ UNCHANGED <<store, s3, now, wh, call, csvFiles, customers, ld, ui>>

\* ------------------------------------------------------- form processor
\* Strings the handlers inspect are sequences of characters.
Digits == {"0", "1", "2", "3", "4", "5", "6", "7", "8", "9"}
LowerCase == <<"a", "b", "c", "d", "e", "f", "g", "h", "i", "j", "k", "l", "m",
               "n", "o", "p", "q", "r", "s", "t", "u", "v", "w", "x", "y", "z">>
UpperCase == <<"A", "B", "C", "D", "E", "F", "G", "H", "I", "J", "K", "L", "M",
               "N", "O", "P", "Q", "R", "S", "T", "U", "V", "W", "X", "Y", "Z">>
UpperSet == {UpperCase[i] : i \in 1..Len(UpperCase)}
WhiteSpace == {" "}

\* String.prototype.toUpperCase
ToUpperChar(c) ==
    IF \E i \in 1..Len(LowerCase) : LowerCase[i] = c
    THEN UpperCase[CHOOSE i \in 1..Len(LowerCase) : LowerCase[i] = c]
    ELSE c
toUpperCase(str) == [i \in 1..Len(str) |-> ToUpperChar(str[i])]
\* String.prototype.startsWith
startsWith(str, pre) == Len(str) >= Len(pre) /\ SubSeq(str, 1, Len(pre)) = pre
\* String.prototype.substring(0, n)
substring0(str, n) == SubSeq(str, 1, IF Len(str) < n THEN Len(str) ELSE n)

Prefix1000 == <<"1", "0", "0", "0">>
Prefix2000 == <<"2", "0", "0", "0">>

\* customerNumber.replace(/[^0-9]/g, '')
SanitizeCustomerNumber(customerNumber) == SelectSeq(customerNumber, LAMBDA c : c \in Digits)
\* /^(1000|2000)\d{7}$/.test(sanitizedCustomerNumber)
CustomerNumberOK(sanitized) ==
    /\ Len(sanitized) = Len(Prefix1000) + 7
    /\ startsWith(sanitized, Prefix1000) \/ startsWith(sanitized, Prefix2000)
    /\ \A i \in 1..Len(sanitized) : sanitized[i] \in Digits
\* postcode.replace(/[^A-Z0-9\s]/g, '').substring(0, 10)
SanitizePostcode(postcode) ==
    substring0(SelectSeq(postcode, LAMBDA c : c \in UpperSet \cup Digits \cup WhiteSpace), 10)
\* sanitizedPostcode.length < 5 is rejected
PostcodeOK(sanitized) == Len(sanitized) >= 5
\* /^[^\s@]+@[^\s@]+\.[^\s@]+$/.test(email)
EmailOK(email) ==
    \E a \in 1..Len(email), d \in 1..Len(email) :
        /\ 1 < a /\ a + 1 < d /\ d < Len(email)
        /\ email[a] = "@" /\ email[d] = "."
        /\ \A i \in 1..Len(email) : i # a => email[i] \notin WhiteSpace \cup {"@"}

\* validateAndSanitizeInput: the sanitised values, or the Error it throws.
validateAndSanitizeInput(customerNumber, postcode, email) ==
    IF ~CustomerNumberOK(SanitizeCustomerNumber(customerNumber))
    THEN [ok |-> FALSE, error |-> "Invalid customer number format"]
    ELSE IF ~PostcodeOK(SanitizePostcode(postcode))
    THEN [ok |-> FALSE, error |-> "Invalid postcode format"]
    ELSE IF ~EmailOK(email)
    THEN [ok |-> FALSE, error |-> "Invalid email format"]
    ELSE [ok |-> TRUE, customerNumber |-> SanitizeCustomerNumber(customerNumber),
          postcode |-> SanitizePostcode(postcode), email |-> email]

\* (mutant) the two prefixes are told apart the wrong way round.
determineServiceSwapped(customerNumber) ==
    IF startsWith(customerNumber, Prefix2000) THEN "council-a"
    ELSE IF startsWith(customerNumber, Prefix1000) THEN "council-b"
    ELSE ""

\* determineServiceFromCustomerNumber; "" stands for the Error it throws.
determineServiceFromCustomerNumber(customerNumber) ==
    IF startsWith(customerNumber, Prefix1000) THEN "council-a"
    ELSE IF startsWith(customerNumber, Prefix2000) THEN "council-b"
    ELSE ""

\* (mutant) the item is written without its exported attribute.
storeSubmissionDataNoFlag(table, d) ==
    PutItem(table,
        [submissionId |-> d.submissionId, customerNumber |-> d.customerNumber,
         postcode |-> d.postcode, email |-> d.email, formType |-> d.formType,
         service |-> d.service, submissionDate |-> d.submissionDate,
         status |-> "pending"])

\* (mutant) a resubmission also resets the customer's earlier submissions.
storeSubmissionDataResets(table, d) ==
    PutItem([k \in DOMAIN table |->
                IF table[k].customerNumber = d.customerNumber
                THEN [status |-> "pending"] @@ table[k] ELSE table[k]],
        [submissionId |-> d.submissionId, customerNumber |-> d.customerNumber,
         postcode |-> d.postcode, email |-> d.email, formType |-> d.formType,
         service |-> d.service, submissionDate |-> d.submissionDate,
         status |-> "pending", exported |-> FALSE])

\* storeSubmissionData
storeSubmissionData(table, d) ==
    PutItem(table,
        [submissionId |-> d.submissionId, customerNumber |-> d.customerNumber,
         postcode |-> d.postcode, email |-> d.email, formType |-> d.formType,
         service |-> d.service, submissionDate |-> d.submissionDate,
         status |-> "pending", exported |-> FALSE])

\* (mutant) the requested service is never compared.
ServiceMismatchIgnored(requestedService, determinedService) == FALSE

\* `requestedService && requestedService !== determinedService`
ServiceMismatch(requestedService, determinedService) ==
    requestedService # "" /\ requestedService # determinedService

\* `/forms/${organization}/test/ThirdPartySharedSecret`
ParameterPath(service) == <<"/forms/", service, "/test/ThirdPartySharedSecret">>

\* completeQueryString: the key=value pairs in order.
CompleteQueryString(customerNumber, postcode, email, submissionId, formType) ==
    <<<<"customer_number", customerNumber>>, <<"postcode", postcode>>,
      <<"CurrentPostcode", postcode>>, <<"Email", email>>, <<"EmailRetype", email>>,
      <<"CustomData", submissionId>>, <<"CallbackURL", "CALLBACK_URL">>,
      <<"DdPlanReference", customerNumber>>>>
    \o IF formType = "user"
       THEN <<<<"showddplanreference", "visible">>, <<"showdob", "hidden">>,
              <<"showmobile", "hidden">>>>
       ELSE <<<<"showddplanfields", "hidden">>, <<"applyingascompany", "false">>,
              <<"showapplyingascompanycheck", "hidden">>, <<"showdob", "hidden">>,
              <<"showmobile", "hidden">>>>

\* What encryptQueryString returns in the handler, named by what went into
\* it (the query string and the parameter holding the secret); its bytes are
\* those of encryptQueryString below.
EncryptedData(completeQueryString, parameterPath) ==
    [encrypted |-> completeQueryString, secretAt |-> parameterPath]
\* encodeURIComponent
encodeURIComponent(str) == [uriComponent |-> str]
\* `${baseUrl}?eData=${encodeURIComponent(encryptedCompleteQueryString)}`
RedirectUrl(baseUrl, encrypted) ==
    [baseUrl |-> baseUrl, query |-> <<<<"eData", encodeURIComponent(encrypted)>>>>]

\* (mutant) the form type is not looked at.
BaseUrlAgentOnly(formType, service) ==
    IF service = "council-a" THEN "forms/council-a/agent" ELSE "forms/council-b/agent"

\* The third party's form for a form type and a service.
BaseUrl(formType, service) ==
    IF formType = "user"
    THEN IF service = "council-a" THEN "forms/council-a/customer" ELSE "forms/council-b/customer"
    ELSE IF service = "council-a" THEN "forms/council-a/agent" ELSE "forms/council-b/agent"

\* The requests of the lifecycle behaviours: the reference enrolment and one
\* with a customer number of neither council.
ScenarioCustomer == <<"1", "0", "0", "0", "1", "2", "3", "4", "5", "6", "7">>
ForeignCustomer == <<"3", "0", "0", "0", "1", "2", "3", "4", "5", "6", "7">>
ScenarioPostcode == <<"A", "B", "1", " ", "2", "C", "D">>
ScenarioEmail == <<"a", "@", "b", ".", "c", "o", "m">>
FormRequests ==
    {[httpMethod |-> "POST", customerNumber |-> c, postcode |-> ScenarioPostcode,
      email |-> ScenarioEmail, form_type |-> "", service |-> ""] :
        c \in {ScenarioCustomer, ForeignCustomer}}

\* The requests the handler is checked on by itself: the reference enrolment
\* with one parameter varied at a time, every pairing of a council's
\* customer number with a form type and a service, and a preflight.
CouncilBCustomer == <<"2", "0", "0", "0", "7", "6", "5", "4", "3", "2", "1">>
DashedCustomer == <<"1", "0", "0", "0", "-", "1", "2", "3", "4", "5", "6", "7">>
ShortCustomer == <<"1", "0", "0", "0", "1", "2", "3", "4", "5", "6">>
LowerPostcode == <<"a", "b", "1", " ", "2", "c", "d">>
ShortPostcode == <<"A", "B", "1">>
SpacedPostcode == <<"A", " ", "B", " ", "C">>
BadEmail == <<"n", "o", "b", "o", "d", "y">>
ScenarioRequest ==
    [httpMethod |-> "POST", customerNumber |-> ScenarioCustomer,
     postcode |-> ScenarioPostcode, email |-> ScenarioEmail,
     form_type |-> "", service |-> ""]
FormInputs ==
    {[ScenarioRequest EXCEPT !.customerNumber = c] :
        c \in {ForeignCustomer, DashedCustomer, ShortCustomer, <<>>}}
    \cup {[ScenarioRequest EXCEPT !.postcode = pc] :
        pc \in {LowerPostcode, ShortPostcode, SpacedPostcode, <<>>}}
    \cup {[ScenarioRequest EXCEPT !.email = e] : e \in {BadEmail, <<>>}}
    \cup {[ScenarioRequest EXCEPT !.customerNumber = c, !.form_type = f, !.service = sv] :
        c \in {ScenarioCustomer, CouncilBCustomer},
        f \in {"", "user", "advisor"},
        sv \in {"", "council-a", "council-b"}}
    \cup {[ScenarioRequest EXCEPT !.form_type = "admin"]}
    \cup {[ScenarioRequest EXCEPT !.httpMethod = "OPTIONS"]}

\* The handler's return value, with the event it answers and the number of
\* GetParameter calls the invocation made.
FormReturn(req, reads, code, body) ==
    out' = [handler |-> "form", statusCode |-> code, body |-> body,
            event |-> req, ssmReads |-> reads]

\* (mutant) an id generator that repeats itself.
randomUUIDRepeats(table) == UUIDs[1]

\* crypto.randomUUID(): the next value of UUIDs, one that no item of the
\* table carries (version-4 UUIDs are taken never to repeat).
randomUUID(table) ==
    CHOOSE id \in IDs \ DOMAIN table : \A k \in IDs \ DOMAIN table : Idx(id) <= Idx(k)

\* The form processor's handler.  Its calls, in order: getParameter,
\* storeSubmissionData (the one write), encryptQueryString; an exception
\* anywhere goes to the catch, which answers 500.
FormSubmit(req, submissionId, ssmOk, putOk, encOk) ==
    /\ DOMAIN store # IDs
    /\ submissionId = randomUUID(store)
    /\ UNCHANGED <<s3, now, wh, ex, call, csvFiles, customers, ld, ui>>
    /\ IF req.httpMethod = "OPTIONS"
       THEN FormReturn(req, 0, 200, [empty |-> TRUE]) /\ store' = store
       ELSE IF req.customerNumber = <<>> \/ req.postcode = <<>> \/ req.email = <<>>
       THEN FormReturn(req, 0, 400, Error("Missing required parameters")) /\ store' = store
       ELSE LET sanitized == validateAndSanitizeInput(req.customerNumber,
                                 toUpperCase(req.postcode), req.email)
            IN IF ~sanitized.ok
               THEN FormReturn(req, 0, 500, Error(sanitized.error)) /\ store' = store
               ELSE LET service == determineServiceFromCustomerNumber(sanitized.customerNumber)
                        formType == IF req.form_type = "" THEN "advisor" ELSE req.form_type
                        stored == storeSubmissionData(store,
                                    [submissionId |-> submissionId,
                                     customerNumber |-> sanitized.customerNumber,
                                     postcode |-> sanitized.postcode,
                                     email |-> sanitized.email,
                                     formType |-> formType, service |-> service,
                                     submissionDate |-> toISOString(now)])
                        encrypted == EncryptedData(
                                    CompleteQueryString(sanitized.customerNumber,
                                        sanitized.postcode, sanitized.email,
                                        submissionId, req.form_type),
                                    ParameterPath(service))
                    IN IF service = ""
                       THEN FormReturn(req, 0, 500, Error("Invalid customer number prefix"))
                            /\ store' = store
                       ELSE IF ServiceMismatch(req.service, service)
                       THEN FormReturn(req, 0, 400, Error("Service mismatch")) /\ store' = store
                       ELSE IF ~ssmOk
                       THEN FormReturn(req, 1, 500, Error("getParameter")) /\ store' = store
                       ELSE IF ~putOk
                       THEN FormReturn(req, 1, 500, Error("PutItem")) /\ store' = store
                       ELSE IF ~encOk
                       THEN FormReturn(req, 1, 500, Error("encryptQueryString"))
                            /\ store' = stored
                       ELSE /\ store' = stored
                            /\ FormReturn(req, 1, 200,
                                    [success |-> TRUE, submissionId |-> submissionId,
                                     encryptedData |-> encrypted,
                                     redirectUrl |-> RedirectUrl(
                                         BaseUrl(req.form_type, service), encrypted),
                                     formType |-> formType, service |-> service])

\* ------------------------------------------------ recordToFixedWidth
\* The widths of the layout.
RecordTypeWidth == 2
CustomerNumberWidth == 25
AccountWidth == 35
SpecialFieldWidth == 255
\* The four filler runs: columns 67-192, 448-529, 532-559, 561-606; the
\* literal of columns 28-31 is four spaces.
Filler1 == 126
Filler2 == 82
Filler3 == 28
Filler4 == 46

\* ' '.repeat(n)
repeat(c, n) == [i \in 1..n |-> c]
\* String.prototype.padStart(n, ' ') and padEnd(n, ' ')
padStart(str, n) == IF Len(str) >= n THEN str ELSE repeat(" ", n - Len(str)) \o str
padEnd(str, n) == IF Len(str) >= n THEN str ELSE str \o repeat(" ", n - Len(str))

\* The placeholder account number '1234567890123456789012345'
AccountPlaceholder == [i \in 1..25 |-> ToString(i % 10)]

\* toISOString().slice(0, 10).replace(/-/g, '') as characters: the day
\* `date` counts from 2025-01-01.
FormattedDate(iso) ==
    <<"2", "0", "2", "5", "0", "1">>
        \o <<ToString((iso.date + 1) \div 10), ToString((iso.date + 1) % 10)>>

\* `AR_40_DDI_${formattedDate} ##${email}## `
SpecialField(formattedDate, email) ==
    <<"A", "R", "_", "4", "0", "_", "D", "D", "I", "_">> \o formattedDate
        \o <<" ", "#", "#">> \o email \o <<"#", "#", " ">>

\* (mutant) the length check only warns.
EnsureLengthWarnsOnly(fixedWidthRecord) == fixedWidthRecord

\* `if (fixedWidthRecord.length !== 606)`: truncate, then pad.
EnsureLength(fixedWidthRecord) ==
    IF Len(fixedWidthRecord) # RecordLength
    THEN padEnd(substring0(fixedWidthRecord, RecordLength), RecordLength)
    ELSE fixedWidthRecord

\* recordToFixedWidth of a record whose submissionDate parses.
recordToFixedWidth(record) ==
    LET customerNumber == IF Has(record, "customerNumber") THEN record.customerNumber ELSE <<>>
        email == IF Has(record, "email") THEN record.email ELSE <<>>
        formattedDate == FormattedDate(record.submissionDate)
        fixedWidthRecord ==
            padStart(<<"2">>, RecordTypeWidth)
            \o padStart(customerNumber, CustomerNumberWidth)
            \o <<" ", " ", " ", " ">>
            \o padStart(AccountPlaceholder, AccountWidth)
            \o repeat(" ", Filler1)
            \o padEnd(SpecialField(formattedDate, email), SpecialFieldWidth)
            \o repeat(" ", Filler2)
            \o <<"D", "D">>
            \o repeat(" ", Filler3)
            \o <<"W">>
            \o repeat(" ", Filler4)
    IN EnsureLength(fixedWidthRecord)

\* ------------------------------------------------- encryptQueryString
\* Buffers are sequences of bytes.
Byte == 0..255
BlockSize == 16
KeySize == 32

RECURSIVE XorBits(_, _, _)
XorBits(a, b, n) ==
    IF n = 0 THEN 0
    ELSE (((a % 2) + (b % 2)) % 2) + 2 * XorBits(a \div 2, b \div 2, n - 1)
XorBlock(x, y) == [i \in 1..BlockSize |-> XorBits(x[i], y[i], 8)]

RECURSIVE SumBytes(_)
SumBytes(data) == IF data = <<>> THEN 0 ELSE Head(data) + SumBytes(Tail(data))

\* crypto.createHash('sha256').update(sharedSecret).digest(): a function of
\* the secret alone to 32 bytes.  The library's digest is not computed; this
\* stand-in keeps what the handler relies on (determinism, the size).
sha256(data) ==
    [i \in 1..KeySize |-> (i * (1 + SumBytes(data)) + 31 * Len(data)) % 256]

\* The block cipher under the key: a keyed permutation of 16-byte blocks,
\* standing in for the library's AES-256.
AesEncryptBlock(key, block) ==
    [i \in 1..BlockSize |-> (block[i] + key[i] + key[i + BlockSize]) % 256]

\* CBC chaining over whole blocks, from the previous ciphertext block.
RECURSIVE CbcBlocks(_, _, _)
CbcBlocks(key, prev, data) ==
    IF data = <<>> THEN <<>>
    ELSE LET c == AesEncryptBlock(key, XorBlock(SubSeq(data, 1, BlockSize), prev))
         IN c \o CbcBlocks(key, c, SubSeq(data, BlockSize + 1, Len(data)))

\* cipher.update(queryString, 'utf8'): the ciphertext of the whole blocks.
cipherUpdate(key, iv, data) ==
    CbcBlocks(key, iv, SubSeq(data, 1, BlockSize * (Len(data) \div BlockSize)))
\* cipher.final(): the last block, PKCS#7-padded.
cipherFinal(key, iv, data) ==
    LET whole == BlockSize * (Len(data) \div BlockSize)
        done == cipherUpdate(key, iv, data)
        prev == IF done = <<>> THEN iv ELSE SubSeq(done, Len(done) - BlockSize + 1, Len(done))
        pad == BlockSize - (Len(data) - whole)
        last == SubSeq(data, whole + 1, Len(data)) \o [i \in 1..pad |-> pad]
    IN AesEncryptBlock(key, XorBlock(last, prev))

\* Buffer.prototype.toString('base64')
DigitChars == <<"0", "1", "2", "3", "4", "5", "6", "7", "8", "9">>
Base64Alphabet == UpperCase \o LowerCase \o DigitChars \o <<"+", "/">>
RECURSIVE base64(_)
base64(buf) ==
    IF buf = <<>> THEN <<>>
    ELSE IF Len(buf) = 1
    THEN <<Base64Alphabet[buf[1] \div 4 + 1],
           Base64Alphabet[(buf[1] % 4) * 16 + 1], "=", "=">>
    ELSE IF Len(buf) = 2
    THEN <<Base64Alphabet[buf[1] \div 4 + 1],
           Base64Alphabet[(buf[1] % 4) * 16 + buf[2] \div 16 + 1],
           Base64Alphabet[(buf[2] % 16) * 4 + 1], "=">>
    ELSE <<Base64Alphabet[buf[1] \div 4 + 1],
           Base64Alphabet[(buf[1] % 4) * 16 + buf[2] \div 16 + 1],
           Base64Alphabet[(buf[2] % 16) * 4 + buf[3] \div 64 + 1],
           Base64Alphabet[(buf[3] % 64) + 1]>> \o base64(SubSeq(buf, 4, Len(buf)))

\* crypto.randomBytes(16): the n-th draw of the random source; draws differ.
randomBytes(n) == [i \in 1..BlockSize |-> (16 * n + 7 * i) % 256]

\* (mutant) the initialisation vector is a constant of the module.
encryptQueryStringFixedIv(queryString, sharedSecret, iv) ==
    LET aesKey == sha256(sharedSecret)
        fixed == randomBytes(0)
    IN base64(fixed \o cipherUpdate(aesKey, fixed, queryString)
                    \o cipherFinal(aesKey, fixed, queryString))

\* encryptQueryString, given the bytes crypto.randomBytes returned.
encryptQueryString(queryString, sharedSecret, iv) ==
    LET aesKey == sha256(sharedSecret)
    IN base64(iv \o cipherUpdate(aesKey, iv, queryString)
                 \o cipherFinal(aesKey, iv, queryString))

\* ------------------------------------- the functions applied on their own
NoCall == [fn |-> "none"]
Returned(fn, arg, result) == [fn |-> fn, arg |-> arg, returned |-> TRUE, result |-> result]

\* Attribute values of every length up to the bounds.
DigitString(n) == [i \in 1..n |-> ToString(i % 10)]
EmailOfLength(n) == [i \in 1..n |-> IF i = 2 THEN "@" ELSE IF i = 4 THEN "." ELSE "x"]
\* The items recordToFixedWidth is applied to: every length of customerNumber
\* and email, and items that lack an attribute.
FixedWidthRecords ==
    {[customerNumber |-> DigitString(n), email |-> EmailOfLength(m),
      submissionDate |-> toISOString(0)] : n \in 0..MaxCustomerLen, m \in 0..MaxEmailLen}
    \cup {[email |-> EmailOfLength(m), submissionDate |-> toISOString(MaxTime)] :
              m \in {7, MaxEmailLen}}
    \cup {[customerNumber |-> DigitString(n), submissionDate |-> toISOString(MaxTime)] :
              n \in {11, MaxCustomerLen}}
    \cup {[customerNumber |-> DigitString(11), email |-> EmailOfLength(7)]}

\* Other values the verification-status field can carry.
OtherLits == {"false", "\"TRUE\"", "\"\"", "1", "null"}
\* The parsed payloads the status is determined from: the field absent, or
\* present with any of the literals.
StatusPayloads ==
    {[CustomData |-> UUIDs[1]]}
    \cup {[CustomData |-> UUIDs[1], VerificationStatus |-> v] :
              v \in VerificationLits \cup OtherLits}

\* `const status = isSuccess ? 'approved' : 'failed'`
DetermineStatusCall ==
    /\ call.fn = "DetermineStatus" /\ ~call.returned
    /\ call' = Returned(call.fn, call.arg, DetermineStatus(call.arg))
    /\ UNCHANGED <<store, s3, now, wh, ex, out, csvFiles, customers, ld, ui>>

\* Raw customer numbers: a prefix and a tail of six to eight digits, bare,
\* after a letter, or with a dash in between.
CustomerPrefixes ==
    {Prefix1000, Prefix2000, <<"3", "0", "0", "0">>, <<"0", "1", "0", "0">>,
     <<"1", "0", "0", "1">>, <<"2", "0", "0">>}
CustomerTails == {SubSeq(<<"1", "2", "3", "4", "5", "6", "7", "8">>, 1, n) : n \in 6..8}
CustomerNumbers ==
    {pre \o tail : pre \in CustomerPrefixes, tail \in CustomerTails}
    \cup {<<"A">> \o pre \o tail : pre \in CustomerPrefixes, tail \in CustomerTails}
    \cup {pre \o <<"-">> \o tail : pre \in CustomerPrefixes, tail \in CustomerTails}

\* The handler's validation and derivation for a raw customer number, the
\* other parameters being those of the reference enrolment; both functions
\* reject by throwing.
DeriveService(rawCustomerNumber) ==
    LET sanitized == validateAndSanitizeInput(rawCustomerNumber,
                         toUpperCase(ScenarioPostcode), ScenarioEmail)
    IN IF ~sanitized.ok THEN [accepted |-> FALSE]
       ELSE IF determineServiceFromCustomerNumber(sanitized.customerNumber) = ""
       THEN [accepted |-> FALSE]
       ELSE [accepted |-> TRUE,
             service |-> determineServiceFromCustomerNumber(sanitized.customerNumber)]
DeriveServiceCall ==
    /\ call.fn = "DeriveService" /\ ~call.returned
    /\ call' = Returned(call.fn, call.arg, DeriveService(call.arg))
    /\ UNCHANGED <<store, s3, now, wh, ex, out, csvFiles, customers, ld, ui>>

\* The query strings (as UTF-8 bytes) and the secrets encryptQueryString is
\* applied to: every length up to the bound; the empty secret, a one-byte
\* secret, a longer one.
Message(n) == [i \in 1..n |-> (37 * i + 11) % 256]
Messages == {Message(n) : n \in 0..MaxMessageLen}
Secrets == {<<>>, <<115>>, <<115, 51, 99, 114, 51, 116>>}

\* One call of encryptQueryString on the input; crypto.randomBytes returns
\* the next draw of the random source, or throws when the source is
\* unavailable.
EncryptQueryStringCall(rngOk) ==
    /\ call.fn = "encryptQueryString"
    /\ Len(call.results) < MaxEncryptCalls
    /\ call' = [call EXCEPT
                  !.returned = TRUE,
                  !.draws = IF rngOk THEN @ + 1 ELSE @,
                  !.results = Append(@,
                      IF rngOk
                      THEN [threw |-> FALSE, rng |-> TRUE,
                            value |-> encryptQueryString(call.arg.queryString,
                                          call.arg.sharedSecret, randomBytes(call.draws))]
                      ELSE [threw |-> TRUE, rng |-> FALSE])]
    /\ UNCHANGED <<store, s3, now, wh, ex, out, csvFiles, customers, ld, ui>>

\* recordToFixedWidth(record); `new Date('').toISOString()` throws.
RecordToFixedWidthCall ==
    /\ call.fn = "recordToFixedWidth" /\ ~call.returned
    /\ call' = Returned(call.fn, call.arg,
                    IF CanSerialize(call.arg)
                    THEN [threw |-> FALSE, value |-> recordToFixedWidth(call.arg)]
                    ELSE [threw |-> TRUE])
    /\ UNCHANGED <<store, s3, now, wh, ex, out, csvFiles, customers, ld, ui>>

\* ------------------------------------------------------------ csv loader
\* CSV_FILES, and `fileName.includes('COUNCIL_A') ? 'council-a' : 'council-b'`
CSV_FILES == <<"COUNCIL_A_CUSTOMER_LIST.CSV", "COUNCIL_B_CUSTOMER_LIST.CSV">>
ServiceOfFile(fileName) ==
    IF fileName = "COUNCIL_A_CUSTOMER_LIST.CSV" THEN "council-a" ELSE "council-b"

\* String.prototype.trim
RECURSIVE trimStart(_)
trimStart(str) ==
    IF str # <<>> /\ Head(str) \in WhiteSpace THEN trimStart(Tail(str)) ELSE str
RECURSIVE trimEnd(_)
trimEnd(str) ==
    IF str # <<>> /\ str[Len(str)] \in WhiteSpace
    THEN trimEnd(SubSeq(str, 1, Len(str) - 1)) ELSE str
trim(str) == trimEnd(trimStart(str))
\* String.prototype.split(sep)
RECURSIVE split(_, _)
split(str, sep) ==
    IF \E i \in 1..Len(str) : str[i] = sep
    THEN LET i == CHOOSE k \in 1..Len(str) :
                      str[k] = sep /\ \A j \in 1..(k - 1) : str[j] # sep
         IN <<SubSeq(str, 1, i - 1)>> \o split(SubSeq(str, i + 1, Len(str)), sep)
    ELSE <<str>>
\* .replace(/"/g, '')
removeQuotes(str) == SelectSeq(str, LAMBDA c : c # "\"")

\* The loop over lines[1..]: a non-blank line of at least three columns
\* gives a record.
RECURSIVE ParseRows(_, _)
ParseRows(lines, service) ==
    IF lines = <<>> THEN <<>>
    ELSE LET line == trim(Head(lines))
             columns == split(line, ",")
             rest == ParseRows(Tail(lines), service)
         IN IF line # <<>> /\ Len(columns) >= 3
            THEN <<[customer_number |-> trim(removeQuotes(columns[1])),
                    postcode |-> trim(removeQuotes(columns[2])),
                    service |-> service]>> \o rest
            ELSE rest

\* downloadAndParseCSV: the file's content is its lines (csvContent.split('\n')),
\* the first of which is the header.
downloadAndParseCSV(bucket, fileName) ==
    ParseRows(Tail(bucket[fileName]), ServiceOfFile(fileName))

\* allRecords after the loop over CSV_FILES
AllRecords(bucket) ==
    downloadAndParseCSV(bucket, CSV_FILES[1]) \o downloadAndParseCSV(bucket, CSV_FILES[2])

\* `records.map(record => [...record, new Date()])`
InsertValues(records, t) ==
    [i \in 1..Len(records) |->
        [customer_number |-> records[i].customer_number,
         postcode |-> records[i].postcode,
         service |-> records[i].service,
         created_at |-> t]]

\* batchSize (1000 in the code), scaled to the files of CsvBuckets.
batchSize == 2

LoadPs == 1..MaxLoads
LdIdle == [pc |-> "idle"]
LdReturn(l, code, body) ==
    /\ ld' = [ld EXCEPT ![l] = [pc |-> "done", code |-> code]]
    /\ out' = Resp("csv-loader", code, body)

\* The handler up to the connection: both files downloaded and parsed,
\* mysql.createConnection.
LoadDownload(l, ok) ==
    /\ ld[l].pc = "idle"
    /\ l > 1 => ld[l - 1].pc # "idle"
    /\ UNCHANGED <<store, s3, now, wh, ex, call, csvFiles, customers, ui>>
    /\ IF ~ok
       THEN LdReturn(l, 500, ExFailure("download"))
       ELSE /\ ld' = [ld EXCEPT ![l] = [pc |-> "truncate",
                                         records |-> AllRecords(csvFiles)]]
            /\ out' = out

\* (mutant) the table is not emptied before the inserts.
LoadTruncateKeeps(l, ok) ==
    /\ ld[l].pc = "truncate"
    /\ UNCHANGED <<store, s3, now, wh, ex, call, csvFiles, customers, ui>>
    /\ IF ~ok
       THEN LdReturn(l, 500, ExFailure("truncate"))
       ELSE /\ ld' = [ld EXCEPT ![l] = [pc |-> "insert",
                                         values |-> InsertValues(ld[l].records, now),
                                         i |-> 0, totalInserted |-> 0]]
            /\ out' = out

\* `TRUNCATE TABLE customers`, then the values to insert.
LoadTruncate(l, ok) ==
    /\ ld[l].pc = "truncate"
    /\ UNCHANGED <<store, s3, now, wh, ex, call, csvFiles, ui>>
    /\ IF ~ok
       THEN LdReturn(l, 500, ExFailure("truncate")) /\ customers' = customers
       ELSE /\ customers' = <<>>
            /\ ld' = [ld EXCEPT ![l] = [pc |-> "insert",
                                         values |-> InsertValues(ld[l].records, now),
                                         i |-> 0, totalInserted |-> 0]]
            /\ out' = out

\* One pass of the batch loop: one multi-row INSERT.
LoadInsert(l, ok) ==
    /\ ld[l].pc = "insert"
    /\ ld[l].i < Len(ld[l].values)
    /\ UNCHANGED <<store, s3, now, wh, ex, call, csvFiles, ui>>
    /\ IF ~ok
       THEN LdReturn(l, 500, ExFailure("insert")) /\ customers' = customers
       ELSE LET last == IF ld[l].i + batchSize < Len(ld[l].values)
                        THEN ld[l].i + batchSize ELSE Len(ld[l].values)
                batch == SubSeq(ld[l].values, ld[l].i + 1, last)
            IN /\ customers' = customers \o batch
               /\ ld' = [ld EXCEPT ![l].i = @ + batchSize,
                                   ![l].totalInserted = @ + Len(batch)]
               /\ out' = out

\* The loop is over: the success response.
LoadFinish(l) ==
    /\ ld[l].pc = "insert"
    /\ ld[l].i >= Len(ld[l].values)
    /\ LdReturn(l, 200, [success |-> TRUE, recordsLoaded |-> ld[l].totalInserted,
                          filesProcessed |-> Len(CSV_FILES)])
    /\ UNCHANGED <<store, s3, now, wh, ex, call, csvFiles, customers, ui>>

\* ---------------------------------------------------- customer validator
\* REPLACE(postcode, " ", "")
ReplaceSpaces(str) == SelectSeq(str, LAMBDA c : c # " ")

\* The validator's validateAndSanitizeInput(customerNumber, postcode).
validatorValidateAndSanitizeInput(customerNumber, postcode) ==
    IF ~CustomerNumberOK(SanitizeCustomerNumber(customerNumber))
    THEN [ok |-> FALSE, error |-> "Invalid customer number format"]
    ELSE IF Len(SelectSeq(SanitizePostcode(postcode), LAMBDA c : c \notin WhiteSpace)) < 5
    THEN [ok |-> FALSE, error |-> "Invalid postcode format"]
    ELSE [ok |-> TRUE, customerNumber |-> SanitizeCustomerNumber(customerNumber),
          postcode |-> SanitizePostcode(postcode)]

\* SELECT customer_number FROM customers WHERE customer_number = ? AND
\* REPLACE(postcode, " ", "") = REPLACE(?, " ", "") LIMIT 1: rows.length > 0
SelectCustomer(table, validCustomerNumber, validPostcode) ==
    \E i \in 1..Len(table) :
        /\ table[i].customer_number = validCustomerNumber
        /\ ReplaceSpaces(table[i].postcode) = ReplaceSpaces(validPostcode)

ValidatorReturn(event, code, body) ==
    out' = [handler |-> "validator", statusCode |-> code, body |-> body,
            event |-> event]

\* The customer validator's handler.
CustomerValidate(event, dbOk) ==
    /\ UNCHANGED <<store, s3, now, wh, ex, call, csvFiles, customers, ld, ui>>
    /\ IF event.httpMethod = "OPTIONS"
       THEN ValidatorReturn(event, 200, [empty |-> TRUE])
       ELSE LET customerNumber == trim(event.customer_number)
                postcode == toUpperCase(trim(event.postcode))
                sanitized == validatorValidateAndSanitizeInput(customerNumber, postcode)
            IN IF ~sanitized.ok
               THEN ValidatorReturn(event, 400, Error(sanitized.error))
               ELSE IF sanitized.customerNumber = <<>> \/ sanitized.postcode = <<>>
               THEN ValidatorReturn(event, 400, Error("Invalid input parameters"))
               ELSE IF ~dbOk
               THEN ValidatorReturn(event, 500,
                        Error("Unable to verify customer details. Please try again."))
               ELSE IF SelectCustomer(customers, sanitized.customerNumber,
                                      sanitized.postcode)
               THEN ValidatorReturn(event, 200, [message |-> "Valid customer and postcode"])
               ELSE ValidatorReturn(event, 400,
                        Error("No match for customer number and postcode"))

\* The files and the table the loader and the validator are run on.
Quote == "\""
Comma == ","
CsvLine(customerNumber, postcode) ==
    <<Quote>> \o customerNumber \o <<Quote, Comma, Quote>> \o postcode
        \o <<Quote, Comma, "x">>
CsvHeader == <<"n", Comma, "p", Comma, "s">>
OldCustomer == <<"1", "0", "0", "0", "9", "9", "9", "9", "9", "9", "9">>
NewCustomer == <<"1", "0", "0", "0", "5", "5", "5", "5", "5", "5", "5">>
\* A file with a blank line and a two-column line between its rows, one
\* with padded unquoted columns, and one with a header alone.
CsvBuckets ==
    {[f \in {CSV_FILES[1], CSV_FILES[2]} |->
        IF f = CSV_FILES[1]
        THEN <<CsvHeader, CsvLine(ScenarioCustomer, ScenarioPostcode), <<>>,
               <<"1", Comma, "2">>, <<" ">> \o CsvLine(NewCustomer, ScenarioPostcode)>>
        ELSE <<CsvHeader,
               <<" ">> \o CouncilBCustomer \o <<" ", Comma>> \o ScenarioPostcode
                   \o <<Comma, Comma>>>>],
     [f \in {CSV_FILES[1], CSV_FILES[2]} |->
        IF f = CSV_FILES[1]
        THEN <<CsvHeader, CsvLine(ScenarioCustomer, ScenarioPostcode)>>
        ELSE <<CsvHeader>>]}
InitialCustomers ==
    InsertValues(<<[customer_number |-> ScenarioCustomer, postcode |-> ScenarioPostcode,
                    service |-> "council-a"],
                   [customer_number |-> OldCustomer, postcode |-> ScenarioPostcode,
                    service |-> "council-a"]>>, 0)
ValidatorEvents ==
    {[httpMethod |-> "GET", customer_number |-> c, postcode |-> pc] :
        c \in {ScenarioCustomer, OldCustomer, NewCustomer, ShortCustomer},
        pc \in {LowerPostcode, SpacedPostcode}}
    \cup {[httpMethod |-> "OPTIONS", customer_number |-> <<>>, postcode |-> <<>>]}

\* ------------------------------------------------------------ form script
\* Timers count down in steps of TickMs milliseconds.
TickMs == 100
DebounceMs == 300
ValidationMs == 1000
ProcessingMs == 1000

\* In these regex literals `\\` is one backslash character and the letter
\* after it is a plain letter.
Backslash == "\\"
\* /^1000\\d{7}$/.test(customerNumber)
isValidCustomer(customerNumber) ==
    customerNumber = <<"1", "0", "0", "0", Backslash>> \o [i \in 1..7 |-> "d"]
\* /^[^\\s@]+@[^\\s@]+\\.[^\\s@]+$/.test(email)
EmailClass(c) == c \notin {Backslash, "s", "@"}
validateEmail(email) ==
    \E a \in 1..Len(email), b \in 1..Len(email) :
        /\ 1 < a /\ a + 1 < b /\ b + 2 <= Len(email)
        /\ email[a] = "@" /\ email[b] = Backslash
        /\ \A i \in 1..Len(email) : (i \notin {a, b, b + 1}) => EmailClass(email[i])
\* .replace(/\\s+/g, ''): a backslash and the letters s after it are removed.
RECURSIVE DropS(_)
DropS(str) == IF str # <<>> /\ Head(str) = "s" THEN DropS(Tail(str)) ELSE str
RECURSIVE replaceBackslashS(_)
replaceBackslashS(str) ==
    IF str = <<>> THEN <<>>
    ELSE IF Head(str) = Backslash /\ Len(str) > 1 /\ str[2] = "s"
    THEN replaceBackslashS(DropS(Tail(str)))
    ELSE <<Head(str)>> \o replaceBackslashS(Tail(str))

Null == [null |-> TRUE]
NoData == [customerNumber |-> <<>>, postcode |-> <<>>, email |-> <<>>,
           allFieldsValid |-> FALSE]
Timer(kind, ms, data) == [kind |-> kind, left |-> ms, data |-> data]
Pending(kind) == {i \in 1..Len(ui.timers) : ui.timers[i].kind = kind}
\* The timer that is due and was set first.
Due(i) ==
    /\ i \in 1..Len(ui.timers)
    /\ ui.timers[i].left = 0
    /\ \A j \in 1..(i - 1) : ui.timers[j].left # 0
Without(timers, i) == SubSeq(timers, 1, i - 1) \o SubSeq(timers, i + 1, Len(timers))

\* The page after DOMContentLoaded.
UiLoaded ==
    [page |-> "loaded", customer |-> <<>>, postcode |-> <<>>, email |-> <<>>,
     validatedCustomerData |-> Null, disabled |-> TRUE, textContent |-> "Proceed",
     timers |-> <<>>]

\* disableSubmitButton and enableSubmitButton, on the page's record.
disableSubmitButton(page) ==
    [page EXCEPT !.disabled = TRUE, !.textContent = "Proceed",
                 !.validatedCustomerData = Null]
enableSubmitButton(page) ==
    [page EXCEPT !.disabled = FALSE, !.textContent = "Proceed"]

\* What the user can type into the fields.
UiValidCustomer == <<"1", "0", "0", "0", Backslash>> \o [i \in 1..7 |-> "d"]
UiEmailA == <<"a", "@", "b", Backslash, ".", "c">>
UiEmailB == <<"x", "@", "b", Backslash, ".", "c">>
UiFieldValues ==
    [customer |-> {<<>>, UiValidCustomer, ScenarioCustomer},
     postcode |-> {<<>>, LowerPostcode},
     email |-> {<<>>, UiEmailA, UiEmailB, ScenarioEmail}]

\* An input event on a field: the field has its new value and demoValidator
\* restarts the debounce timer.
UiInput(field, value) ==
    /\ ui.page = "loaded"
    /\ value # ui[field]
    /\ Cardinality(Pending("validation")) < MaxPendingValidations
    /\ LET kept == SelectSeq(ui.timers, LAMBDA t : t.kind # "debounce")
       IN ui' = [ui EXCEPT ![field] = value,
                           !.timers = kept \o <<Timer("debounce", DebounceMs, NoData)>>]
    /\ UNCHANGED <<store, s3, now, wh, ex, out, call, csvFiles, customers, ld>>

\* The debounced callback.
UiDebounceFires(i) ==
    /\ Due(i) /\ ui.timers[i].kind = "debounce"
    /\ LET customerNumber == trim(ui.customer)
           postcode == replaceBackslashS(toUpperCase(trim(ui.postcode)))
           email == trim(ui.email)
           isValidEmail == validateEmail(email)
           rest == [ui EXCEPT !.timers = Without(ui.timers, i)]
       IN IF \/ customerNumber = <<>> \/ postcode = <<>>
             \/ Len(postcode) < 5 \/ Len(postcode) > 7
             \/ ~isValidCustomer(customerNumber)
          THEN IF email = <<>> \/ ~isValidEmail
               THEN ui' = disableSubmitButton(rest)
               ELSE ui' = rest
          ELSE LET data == [customerNumber |-> customerNumber, postcode |-> postcode,
                            email |-> email,
                            allFieldsValid |-> email # <<>> /\ isValidEmail]
                   off == disableSubmitButton(rest)
               IN ui' = [off EXCEPT !.timers =
                            @ \o <<Timer("validation", ValidationMs, data)>>]
    /\ UNCHANGED <<store, s3, now, wh, ex, out, call, csvFiles, customers, ld>>

\* The callback of the simulated API response.
UiValidationFires(i) ==
    /\ Due(i) /\ ui.timers[i].kind = "validation"
    /\ LET data == ui.timers[i].data
           rest == [ui EXCEPT !.timers = Without(ui.timers, i)]
       IN IF data.allFieldsValid
          THEN ui' = enableSubmitButton(
                        [rest EXCEPT !.validatedCustomerData =
                            [customerNumber |-> data.customerNumber,
                             postcode |-> data.postcode, email |-> data.email]])
          ELSE ui' = disableSubmitButton(rest)
    /\ UNCHANGED <<store, s3, now, wh, ex, out, call, csvFiles, customers, ld>>

\* A click on the submit button.
UiClick ==
    /\ ui.page = "loaded"
    /\ ui.validatedCustomerData # Null /\ ~ui.disabled
    /\ ui' = [ui EXCEPT !.textContent = "Processing...", !.disabled = TRUE,
                        !.timers = @ \o <<Timer("processing", ProcessingMs, NoData)>>]
    /\ UNCHANGED <<store, s3, now, wh, ex, out, call, csvFiles, customers, ld>>

\* The callback of the simulated redirect: the alert and the form reset.
UiProcessingFires(i) ==
    /\ Due(i) /\ ui.timers[i].kind = "processing"
    /\ ui' = disableSubmitButton(
                [ui EXCEPT !.timers = Without(ui.timers, i),
                           !.customer = <<>>, !.postcode = <<>>, !.email = <<>>])
    /\ UNCHANGED <<store, s3, now, wh, ex, out, call, csvFiles, customers, ld>>

\* TickMs milliseconds pass; a timer that is due runs first.
UiTick ==
    /\ ui.page = "loaded"
    /\ ui.timers # <<>>
    /\ \A i \in 1..Len(ui.timers) : ui.timers[i].left > 0
    /\ ui' = [ui EXCEPT !.timers =
                 [i \in 1..Len(ui.timers) |->
                     [ui.timers[i] EXCEPT !.left = @ - TickMs]]]
    /\ UNCHANGED <<store, s3, now, wh, ex, out, call, csvFiles, customers, ld>>

\* ---------------------------------------------------------------- clock
Tick ==
    /\ now < MaxTime
    /\ now' = now + 1
    /\ UNCHANGED <<store, s3, wh, ex, out, call, csvFiles, customers, ld, ui>>

\* ------------------------------------------------------- specification
NoFiles == [f \in {} |-> <<>>]
UiIdle == [page |-> "closed"]
Init ==
    /\ store = [id \in {} |-> NoItem]
    /\ s3 = [k \in {} |-> <<>>]
    /\ now = 0
    /\ wh = [p \in WebhookPs |-> WhIdle]
    /\ ex = [r \in ExportPs |-> ExIdle]
    /\ out = NoResp
    /\ call = NoCall
    /\ csvFiles = NoFiles
    /\ customers = <<>>
    /\ ld = [l \in LoadPs |-> LdIdle]
    /\ ui = UiIdle

Next ==
    \/ \E req \in FormRequests, id \in IDs, ssmOk \in BOOLEAN, putOk \in BOOLEAN,
          encOk \in BOOLEAN : FormSubmit(req, id, ssmOk, putOk, encOk)
    \/ \E p \in WebhookPs, e \in WebhookEvents, ok \in BOOLEAN : WebhookReceive(p, e, ok)
    \/ \E p \in WebhookPs : WebhookUpdate(p)
    \/ \E p \in WebhookPs : WebhookUpdateFails(p)
    \/ \E r \in ExportPs, ok \in BOOLEAN, page \in ScanPages(store) : ExportScan(r, ok, page)
    \/ \E r \in ExportPs : ExportUpload(r)
    \/ \E r \in ExportPs : ExportUploadFails(r)
    \/ \E r \in ExportPs, id \in IDs : ExportMark(r, id)
    \/ \E r \in ExportPs, id \in IDs : ExportMarkFails(r, id)
    \/ \E r \in ExportPs : ExportFinish(r)
    \/ Tick

Spec == Init /\ [][Next]_vars

\* The schedule invokes the exporter again: a finished invocation's slot
\* takes the next one.
ExportTrigger(r) ==
    /\ ex[r].pc = "done"
    /\ ex[r].pending = {}
    /\ ex' = [ex EXCEPT ![r] = ExIdle]
    /\ UNCHANGED <<store, s3, now, wh, out, call, csvFiles, customers, ld, ui>>

\* The lifecycle with the exporter triggered again and again, where a scan,
\* an upload and an update that are attempted again and again eventually
\* succeed.
NextLive ==
    \/ Next
    \/ \E r \in ExportPs : ExportTrigger(r)

Fairness ==
    /\ \A r \in ExportPs : WF_vars(ExportTrigger(r))
    /\ \A r \in ExportPs :
          SF_vars(\E page \in ScanPages(store) : ExportScan(r, TRUE, page))
    /\ \A r \in ExportPs : SF_vars(ExportUpload(r))
    /\ \A r \in ExportPs : SF_vars(\E id \in IDs : ExportMark(r, id))
    /\ \A r \in ExportPs : WF_vars(ExportFinish(r))

SpecLive == Init /\ [][NextLive]_vars /\ Fairness

\* The form processor by itself, on every request of FormInputs.
NextForm ==
    \E req \in FormInputs, id \in IDs, ssmOk \in BOOLEAN, putOk \in BOOLEAN,
       encOk \in BOOLEAN : FormSubmit(req, id, ssmOk, putOk, encOk)

SpecForm == Init /\ [][NextForm]_vars

\* The functions on their own: Init draws the input, the action applies.
InitCalls ==
    /\ store = [id \in {} |-> NoItem]
    /\ s3 = [k \in {} |-> <<>>]
    /\ now = 0
    /\ wh = [p \in WebhookPs |-> WhIdle]
    /\ ex = [r \in ExportPs |-> ExIdle]
    /\ out = NoResp
    /\ csvFiles = NoFiles
    /\ customers = <<>>
    /\ ld = [l \in LoadPs |-> LdIdle]
    /\ ui = UiIdle
    /\ \/ call \in {[fn |-> "recordToFixedWidth", arg |-> r, returned |-> FALSE] :
                        r \in FixedWidthRecords}
       \/ call \in {[fn |-> "DetermineStatus", arg |-> d, returned |-> FALSE] :
                        d \in StatusPayloads}
       \/ call \in {[fn |-> "DeriveService", arg |-> c, returned |-> FALSE] :
                        c \in CustomerNumbers}
       \/ call \in {[fn |-> "encryptQueryString",
                      arg |-> [queryString |-> m, sharedSecret |-> k],
                      returned |-> FALSE, draws |-> 0, results |-> <<>>] :
                        m \in Messages, k \in Secrets}

NextCalls ==
    \/ RecordToFixedWidthCall
    \/ DetermineStatusCall
    \/ DeriveServiceCall
    \/ \E rngOk \in BOOLEAN : EncryptQueryStringCall(rngOk)

SpecCalls == InitCalls /\ [][NextCalls]_vars

\* The CSV loader and the customer validator on the customers table.
InitCsv ==
    /\ store = [id \in {} |-> NoItem]
    /\ s3 = [k \in {} |-> <<>>]
    /\ now = 0
    /\ wh = [p \in WebhookPs |-> WhIdle]
    /\ ex = [r \in ExportPs |-> ExIdle]
    /\ out = NoResp
    /\ call = NoCall
    /\ csvFiles \in CsvBuckets
    /\ customers = InitialCustomers
    /\ ld = [l \in LoadPs |-> LdIdle]
    /\ ui = UiIdle

NextCsv ==
    \/ \E l \in LoadPs, ok \in BOOLEAN : LoadDownload(l, ok)
    \/ \E l \in LoadPs, ok \in BOOLEAN : LoadTruncate(l, ok)
    \/ \E l \in LoadPs, ok \in BOOLEAN : LoadInsert(l, ok)
    \/ \E l \in LoadPs : LoadFinish(l)
    \/ \E e \in ValidatorEvents, ok \in BOOLEAN : CustomerValidate(e, ok)

SpecCsv == InitCsv /\ [][NextCsv]_vars

\* The form page under the user's input events and clicks and its timers.
InitUi ==
    /\ store = [id \in {} |-> NoItem]
    /\ s3 = [k \in {} |-> <<>>]
    /\ now = 0
    /\ wh = [p \in WebhookPs |-> WhIdle]
    /\ ex = [r \in ExportPs |-> ExIdle]
    /\ out = NoResp
    /\ call = NoCall
    /\ csvFiles = NoFiles
    /\ customers = <<>>
    /\ ld = [l \in LoadPs |-> LdIdle]
    /\ ui = UiLoaded

NextUi ==
    \/ \E field \in DOMAIN UiFieldValues : \E value \in UiFieldValues[field] :
          UiInput(field, value)
    \/ \E i \in 1..(MaxPendingValidations + 3) : UiDebounceFires(i)
    \/ \E i \in 1..(MaxPendingValidations + 3) : UiValidationFires(i)
    \/ \E i \in 1..(MaxPendingValidations + 3) : UiProcessingFires(i)
    \/ UiClick
    \/ UiTick

SpecUi == InitUi /\ [][NextUi]_vars

TypeOK ==
    /\ DOMAIN store \subseteq IDs
    /\ now \in Times

\* ================================================================ claims
Terminal == {"approved", "failed"}
\* The submissions the exporter's filter matches in the whole table.
Eligible(table) == {id \in DOMAIN table : MatchesFilter(table[id])}
\* Webhook invocation p performs its update, or fails to, in this step.
CallbackReturns(p) == wh[p].pc = "update" /\ wh'[p].pc = "done"
\* Export run r comes back from its scan in this step.
ScanReturns(r) == ex[r].pc = "idle" /\ ex'[r].pc # "idle"
\* Export run r returns its response in this step.
RunReturns(r) == ex[r].pc # "done" /\ ex'[r].pc = "done"
\* No other export run is between its scan and its last update.
RunsAlone(r) ==
    \A q \in ExportPs \ {r} : ex[q].pc \in {"idle", "done"} /\ ex[q].pending = {}
\* The attributes of an item other than the two the exporter sets.
SameBut(old, new, attrs) ==
    /\ DOMAIN old \subseteq DOMAIN new
    /\ DOMAIN new \subseteq DOMAIN old \cup attrs
    /\ \A a \in DOMAIN old \ attrs : new[a] = old[a]

\* C1: once a submission's status is approved or failed, no step changes it.
C1_StatusMonotonic ==
    [][\A id \in DOMAIN store :
          store[id].status \in Terminal => store'[id].status = store[id].status]_vars

\* C2: a callback for a terminal submission that maps to the other outcome
\* is answered 409 (or 500 when the table is unavailable) and leaves the
\* table as it was.
C2_ConflictRejected ==
    [][\A p \in WebhookPs :
          (/\ CallbackReturns(p)
           /\ store[wh[p].submissionId].status \in Terminal
           /\ store[wh[p].submissionId].status # wh[p].status)
          => (out'.statusCode \in {409, 500} /\ store' = store)]_vars

\* C3: a callback for a terminal submission that maps to the same outcome
\* leaves the stored item (status, webhookData, updatedAt) as it was and
\* answers success with the stored status.
C3_SameOutcomeNoOp ==
    [][\A p \in WebhookPs :
          (/\ CallbackReturns(p)
           /\ store[wh[p].submissionId].status \in Terminal
           /\ store[wh[p].submissionId].status = wh[p].status)
          => /\ store' = store
             /\ out'.statusCode \in {200, 500}
             /\ out'.statusCode = 200 =>
                    out'.body.status = store[wh[p].submissionId].status]_vars

\* C4: every submission marked exported has status approved.
C4_ExportedOnlyIfApproved ==
    \A id \in DOMAIN store : store[id].exported => store[id].status = "approved"

\* C5: the submissions a run takes from its scan are exactly those of the
\* table with status approved and exported false.
C5_SelectionExact ==
    [][\A r \in ExportPs :
          (ScanReturns(r) /\ (ex'[r].pc = "done" => ex'[r].code = 200))
          => ex'[r].ids = Eligible(store)]_vars

\* C6: when a run returns success, everything it selected is exported with
\* exportedAt set and, if no callback wrote since the run started, no
\* approved unexported submission is left.
C6_AfterSuccessfulRun ==
    [][\A r \in ExportPs :
          (RunReturns(r) /\ ex'[r].code = 200)
          => /\ \A id \in ex[r].ids :
                    store'[id].exported /\ Has(store'[id], "exportedAt")
             /\ (\A id \in DOMAIN store' :
                    Has(store'[id], "updatedAt") =>
                        Instant(store'[id].updatedAt)
                            < (IF Has(ex[r], "startTime") THEN ex[r].startTime ELSE now))
                => Eligible(store') = {}]_vars

\* C7: a step of an export run leaves every submission outside the run's
\* selection as it was, and changes nothing but exported and exportedAt of a
\* selected one.
C7_ExportFrame ==
    [][\A r \in ExportPs :
          ex'[r] # ex[r]
          => /\ DOMAIN store' = DOMAIN store
             /\ \A id \in DOMAIN store :
                    IF id \in ex'[r].ids
                    THEN SameBut(store[id], store'[id], {"exported", "exportedAt"})
                    ELSE store'[id] = store[id]]_vars
C7_Witness ==
    \E r \in ExportPs : \E id \in ex[r].ids : \E other \in DOMAIN store \ ex[r].ids :
        /\ store[id].exported /\ Has(store[id], "exportedAt")
        /\ store[other].status # "pending"

\* C8: an exported flag or exportedAt changes only by an update of a run
\* whose file is in the bucket; a run whose upload fails answers 500, has
\* issued and issues no update, and leaves the table as it was.
C8_MarkOnlyAfterUpload ==
    [][/\ \A id \in DOMAIN store :
            (\/ store'[id].exported # store[id].exported
             \/ Has(store'[id], "exportedAt") # Has(store[id], "exportedAt"))
            => \E r \in ExportPs :
                   /\ id \in ex[r].pending
                   /\ Has(ex[r], "fileName") /\ ex[r].fileName \in DOMAIN s3
       /\ \A r \in ExportPs :
            ex[r].pc \in {"idle", "upload"} => ex[r].pending = {}
       /\ \A r \in ExportPs :
            (ex[r].pc = "upload" /\ ex'[r].pc = "done" /\ s3' = s3)
            => /\ out'.statusCode = 500
               /\ store' = store
               /\ ex'[r].pending = {}
               /\ \A page \in ScanPages(store') :
                      DOMAIN getApprovedRecords(store', page)
                          = DOMAIN getApprovedRecords(store, page)]_vars
C8_Witness ==
    \E r \in ExportPs :
        /\ ex[r].pc = "done" /\ ex[r].code = 500 /\ ex[r].ids # {}
        /\ out = Resp("export", 500, ExFailure("upload"))
        /\ \A id \in ex[r].ids : ~store[id].exported

\* C9: a run whose scan yields no record returns at once with success and a
\* count of 0 (or 500 when the scan failed), uploads nothing and updates
\* nothing.
C9_EmptyExport ==
    [][\A r \in ExportPs :
          (ScanReturns(r) /\ ex'[r].ids = {})
          => /\ ex'[r].pc = "done" /\ ex'[r].pending = {}
             /\ s3' = s3 /\ store' = store
             /\ out'.handler = "export" /\ out'.statusCode \in {200, 500}
             /\ out'.statusCode = 200 => out'.body.recordsExported = 0]_vars
C9_Witness ==
    \E r \in ExportPs :
        /\ ex[r].pc = "done" /\ ex[r].ids = {} /\ ex[r].code = 200
        /\ out = Resp("export", 200, [success |-> TRUE, recordsExported |-> 0])
        /\ DOMAIN store # {} /\ DOMAIN s3 = {}

\* C10: a run that scans while no other run is active takes every approved
\* submission that no earlier successful run took, and none that an earlier
\* successful run took.
C10_ExportedExactlyOnce ==
    [][\A r \in ExportPs :
          (/\ ScanReturns(r) /\ RunsAlone(r)
           /\ ex'[r].pc = "done" => ex'[r].code = 200)
          => LET earlier == UNION {ex[q].ids : q \in {x \in ExportPs \ {r} :
                                       ex[x].pc = "done" /\ ex[x].code = 200}}
             IN /\ \A id \in DOMAIN store :
                       (store[id].status = "approved" /\ id \notin earlier)
                       => id \in ex'[r].ids
                /\ ex'[r].ids \cap earlier = {}]_vars

\* C11: every record recordToFixedWidth returns is exactly 606 characters
\* long, whatever the lengths of the customer number and the email.
C11_RecordLength ==
    (call.fn = "recordToFixedWidth" /\ call.returned /\ ~call.result.threw)
    => Len(call.result.value) = 606
\* A customer number and an email both longer than their columns.
C11_Witness ==
    /\ call.fn = "recordToFixedWidth" /\ call.returned /\ ~call.result.threw
    /\ Has(call.arg, "customerNumber") /\ Len(call.arg.customerNumber) > 25
    /\ Has(call.arg, "email") /\ Len(SpecialField(FormattedDate(call.arg.submissionDate), call.arg.email)) > 255
    /\ Len(call.result.value) = 606

\* The event is a POST whose body parses to a payload without a CustomData
\* value.
NoToken(event) ==
    /\ event.httpMethod = "POST" /\ event.body.kind # "none"
    /\ ~Has(ParseBody(event.body), "CustomData") \/ ParseBody(event.body).CustomData = ""
\* The event is a POST whose payload carries a CustomData that is no key of
\* the table.
UnknownToken(event) ==
    /\ event.httpMethod = "POST" /\ event.body.kind # "none"
    /\ Has(ParseBody(event.body), "CustomData")
    /\ ParseBody(event.body).CustomData \notin DOMAIN store \cup {""}

\* C12: a callback whose parsed payload has no CustomData (missing or empty)
\* is answered with the missing-token error and leaves the table as it was.
C12_MissingToken ==
    [][\A p \in WebhookPs, e \in WebhookEvents, ok \in BOOLEAN :
          (wh'[p] # wh[p] /\ NoToken(e) /\ WebhookReceive(p, e, ok))
          => /\ out' = Resp("webhook", 400, Error("Missing CustomData field"))
             /\ wh'[p].pc = "done"
             /\ store' = store]_vars

\* C13: a callback whose CustomData is no key of the table is answered 404
\* (500 when the lookup itself fails), is over with that answer, and leaves
\* the table as it was: nothing created, nothing changed.
C13_UnknownSubmission ==
    [][\A p \in WebhookPs, e \in WebhookEvents, ok \in BOOLEAN :
          (wh'[p] # wh[p] /\ UnknownToken(e) /\ WebhookReceive(p, e, ok))
          => /\ out'.handler = "webhook"
             /\ out'.statusCode = IF ok THEN 404 ELSE 500
             /\ wh'[p].pc = "done"
             /\ store' = store]_vars
\* An unknown id was answered 404 while other submissions are stored.
C13_Witness ==
    /\ out = Resp("webhook", 404, Error("Submission not found"))
    /\ DOMAIN store # {} /\ DOMAIN store # IDs
    /\ \E p \in WebhookPs : wh[p].pc = "done"

\* C14: the status determined from a payload is approved when its
\* VerificationStatus is the boolean true, the string "true" or the string
\* "True", and failed for every other value and for an absent field.
C14_StatusMapping ==
    (call.fn = "DetermineStatus" /\ call.returned)
    => call.result =
          IF Has(call.arg, "VerificationStatus")
             /\ call.arg.VerificationStatus \in {"true", "\"true\"", "\"True\""}
          THEN "approved" ELSE "failed"

\* C15: the status of a stored submission changes only in the update of a
\* webhook invocation for that submission; a step of the form processor or
\* of an export run leaves every stored status as it was, and a submission
\* the form processor creates is pending.
C15_OnlyReceiverChangesStatus ==
    [][/\ \A id \in DOMAIN store :
            /\ id \in DOMAIN store'
            /\ store'[id].status # store[id].status
               => \E p \in WebhookPs : CallbackReturns(p) /\ wh[p].submissionId = id
       /\ ((\E r \in ExportPs : ex'[r] # ex[r]) \/ (out' # out /\ out'.handler = "form"))
          => \A id \in DOMAIN store : store'[id].status = store[id].status
       /\ \A id \in DOMAIN store' \ DOMAIN store :
            out'.handler = "form" /\ store'[id].status = "pending"]_vars
\* A submission was approved and exported, and a later handoff created
\* another one.
C15_Witness ==
    \E id \in DOMAIN store, other \in DOMAIN store :
        /\ store[id].status = "approved" /\ store[id].exported
        /\ Idx(other) > Idx(id) /\ store[other].status = "pending"
        /\ Instant(store[other].submissionDate) > Instant(store[id].exportedAt)

\* The parameters of a request are all present.
ParametersPresent(event) ==
    /\ event.httpMethod = "POST"
    /\ event.customerNumber # <<>> /\ event.postcode # <<>> /\ event.email # <<>>
\* The parameters pass the validation of customer number, postcode and email.
WellFormed(event) ==
    validateAndSanitizeInput(event.customerNumber, toUpperCase(event.postcode),
                             event.email).ok

\* C16: a call of the form processor that returns success has created
\* exactly one submission, under the id it returns, with status pending and
\* exported false, has left the other submissions alone, and has read the
\* parameter store exactly once.
C16_SuccessCreatesOne ==
    [][(out'.handler = "form" /\ out'.statusCode = 200 /\ Has(out'.body, "success"))
       => LET id == out'.body.submissionId
          IN /\ id \notin DOMAIN store
             /\ DOMAIN store' = DOMAIN store \cup {id}
             /\ \A k \in DOMAIN store : store'[k] = store[k]
             /\ store'[id].submissionId = id
             /\ store'[id].status = "pending"
             /\ Has(store'[id], "exported") /\ store'[id].exported = FALSE
             /\ out'.ssmReads = 1]_vars
\* The second successful handoff of a behaviour.
C16_Witness ==
    /\ out.handler = "form" /\ out.statusCode = 200 /\ Has(out.body, "success")
    /\ Cardinality(DOMAIN store) = 2
    /\ store[out.body.submissionId].status = "pending"

\* C17: a call of the form processor that returns an error leaves the table
\* as it was.
C17_ErrorLeavesNoRecord ==
    [][(out'.handler = "form" /\ out'.statusCode # 200) => store' = store]_vars

\* C18: a request whose customer number, postcode or email fails validation
\* is answered 400 with an error body.
C18_MalformedIs400 ==
    (out.handler = "form" /\ ParametersPresent(out.event) /\ ~WellFormed(out.event))
    => (out.statusCode = 400 /\ Has(out.body, "error"))

\* C19: a customer number is accepted exactly when its digits are eleven
\* and start with 1000 or 2000; the service derived for an accepted number
\* is council-a for 1000 and council-b for 2000, and none is derived for a
\* number with another prefix.
C19_ServiceFromPrefix ==
    (call.fn = "DeriveService" /\ call.returned)
    => LET digits == SelectSeq(call.arg, LAMBDA ch : ch \in Digits)
           pre == SubSeq(digits, 1, 4)
       IN /\ call.result.accepted
                <=> (Len(digits) = 11 /\ pre \in {<<"1", "0", "0", "0">>, <<"2", "0", "0", "0">>})
          /\ call.result.accepted
                => call.result.service =
                      IF pre = <<"1", "0", "0", "0">> THEN "council-a" ELSE "council-b"
          /\ ~call.result.accepted => ~Has(call.result, "service")
\* A council-b number written with a non-digit was accepted.
C19_Witness ==
    /\ call.fn = "DeriveService" /\ call.returned
    /\ call.result.accepted /\ call.result.service = "council-b"
    /\ \E i \in 1..Len(call.arg) : call.arg[i] \notin Digits

\* The organization of a well-formed request's customer number.
Derived(event) ==
    IF SubSeq(SelectSeq(event.customerNumber, LAMBDA ch : ch \in Digits), 1, 4)
            = <<"1", "0", "0", "0">>
    THEN "council-a" ELSE "council-b"

\* C20: a well-formed request that names a service other than the one of
\* its customer number is answered 400 service mismatch with no parameter
\* read and no write; one that names the matching service or none is not
\* rejected: it goes on to the parameter read and returns success unless a
\* dependency fails.
C20_ServiceMismatch ==
    [][(out'.handler = "form" /\ ParametersPresent(out'.event) /\ WellFormed(out'.event))
       => IF out'.event.service \notin {"", Derived(out'.event)}
          THEN /\ out'.statusCode = 400 /\ out'.body = Error("Service mismatch")
               /\ out'.ssmReads = 0
               /\ store' = store
          ELSE /\ out'.statusCode \in {200, 500}
               /\ out'.ssmReads = 1
               /\ out'.statusCode = 200 => out'.body.service = Derived(out'.event)]_vars
\* A council-a customer number sent with service council-b was rejected
\* after another handoff had succeeded.
C20_Witness ==
    /\ out.handler = "form" /\ out.statusCode = 400
    /\ out.body = Error("Service mismatch")
    /\ out.event.customerNumber = ScenarioCustomer /\ out.event.service = "council-b"
    /\ DOMAIN store # {}

\* C21: the form type of every stored submission, and of every success
\* response, is user or advisor, and it is advisor when the request names
\* none.
C21_FormVariantClosed ==
    /\ \A id \in DOMAIN store : store[id].formType \in {"user", "advisor"}
    /\ (out.handler = "form" /\ out.statusCode = 200 /\ Has(out.body, "success"))
       => /\ out.body.formType \in {"user", "advisor"}
          /\ out.event.form_type = "" => out.body.formType = "advisor"

\* The characters of a postcode that count: what is left of the upper-cased
\* postcode after stripping to letters, digits and spaces and cutting to ten
\* characters, without its spaces.
NonSpace(postcode) ==
    LET stripped == SelectSeq(toUpperCase(postcode),
                        LAMBDA ch : ch \in UpperSet \cup Digits \cup {" "})
        cut == IF Len(stripped) > 10 THEN SubSeq(stripped, 1, 10) ELSE stripped
    IN SelectSeq(cut, LAMBDA ch : ch # " ")

\* C22: a request the form processor accepts has a postcode with at least
\* five non-space characters; a request whose postcode has fewer is
\* rejected.
C22_PostcodeNonSpace ==
    (out.handler = "form" /\ ParametersPresent(out.event))
    => /\ out.statusCode = 200 => Len(NonSpace(out.event.postcode)) >= 5
       /\ Len(NonSpace(out.event.postcode)) < 5
            => (out.statusCode # 200 /\ Has(out.body, "error"))

\* The third party's side: base64-decode, take the first 16 bytes as the
\* IV, decrypt the rest in CBC mode under the hash of the shared secret,
\* strip the padding.
Base64Index(ch) == CHOOSE k \in 0..63 : Base64Alphabet[k + 1] = ch
RECURSIVE base64decode(_)
base64decode(str) ==
    IF str = <<>> THEN <<>>
    ELSE LET a == Base64Index(str[1])
             b == Base64Index(str[2])
         IN IF str[3] = "="
            THEN <<a * 4 + b \div 16>>
            ELSE IF str[4] = "="
            THEN <<a * 4 + b \div 16, (b % 16) * 16 + Base64Index(str[3]) \div 4>>
            ELSE <<a * 4 + b \div 16,
                   (b % 16) * 16 + Base64Index(str[3]) \div 4,
                   (Base64Index(str[3]) % 4) * 64 + Base64Index(str[4])>>
                 \o base64decode(SubSeq(str, 5, Len(str)))
\* The inverse of the block cipher under the key.
AesDecryptBlock(key, block) ==
    [i \in 1..BlockSize |-> (block[i] + 512 - key[i] - key[i + BlockSize]) % 256]
RECURSIVE CbcDecrypt(_, _, _)
CbcDecrypt(key, prev, data) ==
    IF Len(data) < BlockSize THEN <<>>
    ELSE XorBlock(AesDecryptBlock(key, SubSeq(data, 1, BlockSize)), prev)
         \o CbcDecrypt(key, SubSeq(data, 1, BlockSize),
                       SubSeq(data, BlockSize + 1, Len(data)))
Decrypt(encrypted, sharedSecret) ==
    LET buf == base64decode(encrypted)
        padded == CbcDecrypt(sha256(sharedSecret), SubSeq(buf, 1, 16),
                             SubSeq(buf, 17, Len(buf)))
    IN IF padded = <<>> \/ padded[Len(padded)] \notin 1..Len(padded) THEN <<"invalid">>
       ELSE SubSeq(padded, 1, Len(padded) - padded[Len(padded)])

\* C24: what encryptQueryString returns is the base64 text of a 16-byte IV
\* followed by whole cipher blocks; decrypting it under the hash of the
\* secret gives back the query string, for every query string and every
\* non-empty secret; and two calls on the same input return different texts.
C24_RoundTripAndFreshIv ==
    (call.fn = "encryptQueryString" /\ call.arg.sharedSecret # <<>>)
    => /\ \A i \in 1..Len(call.results) :
             ~call.results[i].threw
             => /\ \A j \in 1..Len(call.results[i].value) :
                      call.results[i].value[j] \in
                          {Base64Alphabet[k] : k \in 1..64} \cup {"="}
                /\ Len(base64decode(call.results[i].value)) >= 32
                /\ Len(base64decode(call.results[i].value)) % 16 = 0
                /\ Decrypt(call.results[i].value, call.arg.sharedSecret)
                      = call.arg.queryString
       /\ \A i \in 1..Len(call.results), j \in 1..Len(call.results) :
             (i # j /\ ~call.results[i].threw /\ ~call.results[j].threw)
             => call.results[i].value # call.results[j].value
\* Two calls returned for a query string of more than one block.
C24_Witness ==
    /\ call.fn = "encryptQueryString" /\ call.arg.sharedSecret # <<>>
    /\ Len(call.arg.queryString) > 16
    /\ Len(call.results) = 2
    /\ ~call.results[1].threw /\ ~call.results[2].threw
    /\ Decrypt(call.results[2].value, call.arg.sharedSecret) = call.arg.queryString

\* C25: encryptQueryString throws when the shared secret is empty or the
\* random source is unavailable, and then returns no text.
C25_EncryptFailure ==
    call.fn = "encryptQueryString"
    => \A i \in 1..Len(call.results) :
          (call.arg.sharedSecret = <<>> \/ ~call.results[i].rng)
          => (call.results[i].threw /\ ~Has(call.results[i], "value"))

\* C23: the redirect URL of a success response is the endpoint of the
\* request's form type (agent when none is given) and of the organization of
\* its customer number, followed by one query parameter, eData, whose value
\* is the encrypted payload of the response.
C23_RedirectTarget ==
    (/\ out.handler = "form" /\ out.statusCode = 200 /\ Has(out.body, "success")
     /\ out.event.form_type \in {"", "user", "advisor"})
    => /\ out.body.redirectUrl.baseUrl =
             IF out.event.form_type = "user"
             THEN IF Derived(out.event) = "council-a"
                  THEN "forms/council-a/customer" ELSE "forms/council-b/customer"
             ELSE IF Derived(out.event) = "council-a"
                  THEN "forms/council-a/agent" ELSE "forms/council-b/agent"
       /\ Len(out.body.redirectUrl.query) = 1
       /\ out.body.redirectUrl.query[1][1] = "eData"
       /\ out.body.redirectUrl.query[1][2] = encodeURIComponent(out.body.encryptedData)
       /\ out.body.encryptedData.encrypted[6] = <<"CustomData", out.body.submissionId>>
\* A user-form handoff for a council-b customer succeeded.
C23_Witness ==
    /\ out.handler = "form" /\ out.statusCode = 200 /\ Has(out.body, "success")
    /\ out.event.form_type = "user" /\ out.event.customerNumber = CouncilBCustomer
    /\ out.body.redirectUrl.baseUrl = "forms/council-b/customer"

\* C26: a callback that read its submission as pending and finds it, when
\* its own write is due, already set to the other outcome by a concurrent
\* callback, does not overwrite the status and does not report a successful
\* transition.
C26_ConcurrentSingleWriter ==
    [][\A q \in WebhookPs :
          (/\ CallbackReturns(q)
           /\ wh[q].existingStatus = "pending"
           /\ store[wh[q].submissionId].status \in Terminal
           /\ store[wh[q].submissionId].status # wh[q].status)
          => /\ store'[wh[q].submissionId].status = store[wh[q].submissionId].status
             /\ ~(out'.statusCode = 200 /\ Has(out'.body, "success"))]_vars

\* C27: no step removes a submission or changes its submissionId,
\* customerNumber, postcode or email.
C27_IdentityImmutable ==
    [][\A id \in DOMAIN store :
          /\ id \in DOMAIN store'
          /\ \A a \in {"submissionId", "customerNumber", "postcode", "email"} :
                /\ Has(store[id], a) /\ Has(store'[id], a)
                /\ store'[id][a] = store[id][a]]_vars
\* A submission went through a callback and an export, and another
\* handoff was stored next to it.
C27_Witness ==
    \E id \in DOMAIN store, other \in DOMAIN store :
        /\ id # other
        /\ Has(store[id], "webhookData") /\ Has(store[id], "exportedAt")
        /\ store[id].submissionId = id
        /\ CustomerNumberOK(store[id].customerNumber)
        /\ PostcodeOK(store[id].postcode) /\ EmailOK(store[id].email)

\* The step is the form processor's: it returns a form response and no
\* callback, export run or clock moves.
HandoffReturns ==
    /\ out'.handler = "form"
    /\ wh' = wh /\ ex' = ex /\ now' = now /\ s3' = s3 /\ call' = call
    /\ ld' = ld /\ ui' = ui

\* C28: a handoff leaves every existing submission as it was, and a
\* successful one stores its pending record under an id that no existing
\* submission has.
C28_HandoffNeverOverwrites ==
    [][HandoffReturns
       => /\ \A k \in DOMAIN store : k \in DOMAIN store' /\ store'[k] = store[k]
          /\ (out'.statusCode = 200 /\ Has(out'.body, "success"))
             => /\ out'.body.submissionId \notin DOMAIN store
                /\ out'.body.submissionId \in DOMAIN store'
                /\ store'[out'.body.submissionId].status = "pending"]_vars
\* A handoff succeeded while an approved and exported submission was in
\* the table.
C28_Witness ==
    /\ out.handler = "form" /\ out.statusCode = 200 /\ Has(out.body, "success")
    /\ \E id \in DOMAIN store \ {out.body.submissionId} :
          store[id].status = "approved" /\ store[id].exported

\* C29: a run's key is DIRECT_DEBIT_EXPORT_<date of the run>.txt; the run
\* uploads its file under that key, one line per record; and a successful
\* run returns that key and the number of those records.
C29_FileNameAndCount ==
    [][\A r \in ExportPs :
          /\ (ex[r].pc = "idle" /\ ex'[r].pc = "upload")
             => /\ ex'[r].fileName = ExportFileName(now)
                /\ \A t \in 0..(TicksPerDay * (MaxTime + 2)) :
                      ExportFileName(t) =
                          <<"DIRECT_DEBIT_EXPORT_", t \div TicksPerDay, ".txt">>
                /\ Len(ex'[r].fileContent) = Cardinality(ex'[r].ids)
          /\ (ex[r].pc = "upload" /\ ex'[r].pc = "mark")
             => /\ ex[r].fileName \in DOMAIN s3'
                /\ s3'[ex[r].fileName] = ex[r].fileContent
                /\ \A k \in DOMAIN s3 \ {ex[r].fileName} :
                      k \in DOMAIN s3' /\ s3'[k] = s3[k]
          /\ (ex[r].pc \in {"upload", "mark"} /\ ex'[r].pc \in {"mark", "done"})
             => ex'[r].ids = ex[r].ids /\ (Has(ex'[r], "fileName") =>
                                              ex'[r].fileName = ex[r].fileName)
          /\ (ex[r].pc = "mark" /\ RunReturns(r) /\ ex'[r].code = 200)
             => /\ out'.body.fileName = ex[r].fileName
                /\ out'.body.recordsExported = Cardinality(ex[r].ids)]_vars
\* A run returned the key of the two-record file it uploaded.
C29_Witness ==
    \E r \in ExportPs :
        /\ ex[r].pc = "done" /\ ex[r].code = 200 /\ Cardinality(ex[r].ids) = 2
        /\ out.handler = "export" /\ Has(out.body, "fileName")
        /\ out.body.fileName \in DOMAIN s3
        /\ Len(s3[out.body.fileName]) = out.body.recordsExported

\* C30: when a run that no other run overlaps answers 500, none of the
\* records it selected is marked exported.
C30_NoPartialBatch ==
    [][\A r \in ExportPs :
          (RunReturns(r) /\ RunsAlone(r) /\ ex'[r].code = 500)
          => \A id \in ex[r].ids : ~store'[id].exported]_vars

\* The lines held in the bucket, each by its key and its place in the file.
StoredLines == UNION {{<<k, i>> : i \in 1..Len(s3[k])} : k \in DOMAIN s3}

\* C31: every exported submission has its record in a file of the bucket:
\* the bucket holds at least as many copies of its line as there are
\* exported submissions with that line.
C31_ExportedRecordStored ==
    \A id \in DOMAIN store :
        store[id].exported
        => Cardinality({l \in StoredLines : s3[l[1]][l[2]] = ExportLine(store[id])})
               >= Cardinality({j \in DOMAIN store :
                       store[j].exported /\ ExportLine(store[j]) = ExportLine(store[id])})

\* Run r has uploaded its file.
Uploaded(r) ==
    \/ ex[r].pc = "mark"
    \/ ex[r].pc = "done" /\ ex[r].ids # {} /\ (ex[r].code = 200 \/ Has(ex[r], "fileName"))

\* C32: no submission is in the uploads of two runs, and no update sets the
\* exported flag of a submission that already has it.
C32_OverlapExactlyOnce ==
    [][/\ \A r \in ExportPs, q \in ExportPs :
            (r # q /\ Uploaded(r) /\ Uploaded(q)) => ex[r].ids \cap ex[q].ids = {}
       /\ \A r \in ExportPs : \A id \in ex[r].pending :
            (id \notin ex'[r].pending /\ ex'[r].pc = ex[r].pc) => ~store[id].exported]_vars

\* An item's timestamps go with its flags.
TimestampsOK(item) ==
    /\ Has(item, "exportedAt") <=> item.exported
    /\ Has(item, "updatedAt") <=> item.status # "pending"
    /\ Has(item, "webhookData") <=> item.status # "pending"
    /\ Has(item, "submissionDate")

\* C34: in every state a submission has exportedAt exactly when it is
\* exported and updatedAt and webhookData exactly when it is not pending, and
\* no step changes its submissionDate.
C34_Timestamps ==
    [][/\ \A id \in DOMAIN store' : TimestampsOK(store'[id])
       /\ \A id \in DOMAIN store :
            /\ id \in DOMAIN store'
            /\ store'[id].submissionDate = store[id].submissionDate]_vars
\* A failed submission next to an exported one.
C34_Witness ==
    \E id \in DOMAIN store, other \in DOMAIN store :
        /\ store[id].status = "failed" /\ Has(store[id], "updatedAt")
        /\ ~store[id].exported /\ ~Has(store[id], "exportedAt")
        /\ store[other].exported /\ Has(store[other], "exportedAt")
        /\ Has(store[other], "updatedAt")

\* C35: in every record recordToFixedWidth returns, columns 530-531 hold
\* 'DD' and column 560 holds 'W'.
C35_Columns ==
    (call.fn = "recordToFixedWidth" /\ call.returned /\ ~call.result.threw)
    => /\ SubSeq(call.result.value, 530, 531) = <<"D", "D">>
       /\ call.result.value[560] = "W"

\* The rows of a table without their created_at.
Rows(table) ==
    [i \in 1..Len(table) |->
        [customer_number |-> table[i].customer_number,
         postcode |-> table[i].postcode, service |-> table[i].service]]

Answer(table, event) ==
    LET sanitized == validatorValidateAndSanitizeInput(trim(event.customer_number),
                         toUpperCase(trim(event.postcode)))
    IN IF SelectCustomer(table, sanitized.customerNumber, sanitized.postcode)
       THEN 200 ELSE 400

\* C37: every answer of the validator's query is the answer on the complete
\* table before the load or on the complete table after it.
C37_AtomicReplace ==
    (/\ out.handler = "validator"
     /\ \/ Has(out.body, "message")
        \/ out.body = Error("No match for customer number and postcode"))
    => out.statusCode \in {Answer(InitialCustomers, out.event),
                           Answer(InsertValues(AllRecords(csvFiles), 0), out.event)}

\* C38: whenever the submit button is enabled, validatedCustomerData is set
\* and holds the present values of the three fields (as the validator reads
\* them), and these pass the validity checks.
C38_EnabledMeansValidated ==
    (ui.page = "loaded" /\ ~ui.disabled)
    => /\ ui.validatedCustomerData # Null
       /\ ui.validatedCustomerData =
              [customerNumber |-> trim(ui.customer),
               postcode |-> replaceBackslashS(toUpperCase(trim(ui.postcode))),
               email |-> trim(ui.email)]
       /\ isValidCustomer(trim(ui.customer))
       /\ Len(replaceBackslashS(toUpperCase(trim(ui.postcode)))) \in 5..7
       /\ validateEmail(trim(ui.email))

\* C39: at most one processing sequence is under way, and while it is the
\* submit button is disabled.
C39_SingleProcessing ==
    ui.page = "loaded"
    => /\ Cardinality(Pending("processing")) <= 1
       /\ Pending("processing") # {} => ui.disabled

\* C33: under the fairness of SpecLive, every submission that is approved
\* is eventually marked exported.
C33_ApprovedEventuallyExported ==
    \A id \in IDs :
        (id \in DOMAIN store /\ store[id].status = "approved")
            ~> (id \in DOMAIN store /\ store[id].exported)

====
